---- MODULE Spec2Model ----
(***************************************************************************)
(* The orchestrator worker of MyMCP (package workers, OrchestratorWorker-   *)
(* State): a registry of agent genomes, a ledger of runs and a table of    *)
(* workflows behind one sync.RWMutex, with runAgent, runParallel,          *)
(* runWorkflow, evaluate and evolve on top of them.                        *)
(*                                                                         *)
(* Conventions.  A Go string that the code takes apart or builds (names,   *)
(* prompts, inputs, outputs, error texts) is a sequence of symbols, the    *)
(* empty string being << >>; a Go string that is only compared is a TLA+   *)
(* string.  A fitness, a score or a rate is an integer number of           *)
(* hundredths (fitness 0.5 is 50); a temperature is a float64, and a       *)
(* temperature in a request is the decimal the JSON text spells, in        *)
(* hundredths (0.7 is 70).  An ID is the tuple of the parts fmt.Sprintf joins:*)
(* "agent_<slug>_<n>" is <<"agent", slug, n>>.                             *)
(***************************************************************************)
EXTENDS Integers, Sequences, FiniteSets, TLC

VARIABLES
    Agents,       \* w.Agents: map agent ID -> AgentGenome
    Runs,         \* w.Runs: map run ID -> AgentRun
    Workflows,    \* w.Workflows: map workflow ID -> Workflow
    LLMProvider,  \* w.LLMProvider: "nil" or "set"
    calls,        \* the runAgent / runParallel / runWorkflow calls in progress
    evo,          \* the evolve call that holds w.mu, or the idle record
    last,         \* what the step just taken returned to its caller
    issued,       \* history: the agent IDs registerAgent has returned, in order
    evolutions,   \* history: the evolve calls that have built a population
    heap          \* the backing arrays of the []string values (AgentGenome.Tools)

vars == <<Agents, Runs, Workflows, LLMProvider, calls, evo, last, issued, evolutions, heap>>

(***************************************************************************)
(* Bounds of the model.                                                    *)
(***************************************************************************)
\* Callers that may have a runAgent, runParallel or runWorkflow in progress.
NumCallers == 2
\* registerAgent calls in one behaviour.
MaxRegistrations == 3
\* w.MaxParallel, the constructor's parameter (10 when 0 is given).
MaxParallel == 3
\* Steps of a workflow.
MaxSteps == 3

Callers == 1 .. NumCallers

(***************************************************************************)
(* Maps and strings.                                                       *)
(***************************************************************************)
EmptyMap == << >>

Put(m, k, v) == [x \in (DOMAIN m) \cup {k} |-> IF x = k THEN v ELSE m[x]]

Remove(m, k) == [x \in (DOMAIN m) \ {k} |-> m[x]]

EmptyStr == << >>

Min(a, b) == IF a < b THEN a ELSE b

Max(a, b) == IF a > b THEN a ELSE b

\* A []string is a slice header over a backing array of the heap: heap[arr] holds
\* as many strings as the array's capacity, the slice sees the first len of them.
\* No slice of the worker starts past the head of its array.
NilSlice == [arr |-> 0, len |-> 0]

Elements(h, s) == IF s.arr = 0 THEN << >> ELSE SubSeq(h[s.arr], 1, s.len)

Cap(h, s) == IF s.arr = 0 THEN 0 ELSE Len(h[s.arr])

Zeroed(n) == [i \in 1 .. n |-> ""]

\* The capacity the runtime gives a slice of strings that has to grow from oldCap
\* to hold newLen elements (capacities far below 256).
GrowCap(oldCap, newLen) == IF newLen > 2 * oldCap THEN newLen ELSE 2 * oldCap

\* A new array of the given capacity holding elems.
MakeSlice(h, elems, capacity) ==
    [heap |-> Append(h, elems \o Zeroed(capacity - Len(elems))),
     slice |-> [arr |-> Len(h) + 1, len |-> Len(elems)]]

\* append(s, x): in place while the array has room, else into a new array.
AppendOne(h, s, x) ==
    IF s.len < Cap(h, s)
    THEN [heap |-> [h EXCEPT ![s.arr][s.len + 1] = x], slice |-> [s EXCEPT !.len = @ + 1]]
    ELSE MakeSlice(h, Append(Elements(h, s), x), GrowCap(Cap(h, s), s.len + 1))

\* The capacity of a slice json.Unmarshal has filled with n elements, grown by
\* one element at a time.
RECURSIVE DecodedCap(_)
DecodedCap(n) ==
    IF n = 0 THEN 0
    ELSE LET c == DecodedCap(n - 1) IN IF n > c THEN GrowCap(c, c + 1) ELSE c

\* json.Unmarshal of an array of strings into a nil []string.
DecodeStrings(h, elems) ==
    IF elems = << >> THEN [heap |-> h, slice |-> NilSlice]
    ELSE MakeSlice(h, elems, DecodedCap(Len(elems)))

\* json.Marshal of a genome: the tools are the elements its slice sees.
Marshal(h, genome) == [genome EXCEPT !.Tools = Elements(h, genome.Tools)]

(***************************************************************************)
(* float64.  A value is a sign, the exponent of its leading bit and its    *)
(* significand of SigBits bits, leading bit first; zero has every bit 0.   *)
(* The temperatures of the worker are far from the subnormals, infinity    *)
(* and NaN, which have no representation here.  Sums are computed exactly  *)
(* on the bits and rounded to the nearest value, ties to even.             *)
(* An operator that reads an argument many times binds it first, through   *)
(* a one-element set, so that it is computed once.                         *)
(***************************************************************************)
SigBits == 53

The(S) == CHOOSE v \in S : TRUE

Zeros(n) == [i \in 1 .. n |-> 0]

FloatZero == [neg |-> FALSE, exp |-> 0, sig |-> Zeros(SigBits)]

FloatTwo == [neg |-> FALSE, exp |-> 1, sig |-> <<1>> \o Zeros(SigBits - 1)]

IsZero(x) == x.sig[1] = 0

StripZeros(bits) ==
    The({LET ones == {i \in 1 .. Len(b) : b[i] = 1}
         IN  IF ones = {} THEN << >>
             ELSE SubSeq(b, CHOOSE i \in ones : \A j \in ones : i <= j, Len(b)) :
           b \in {bits}})

PadLeft(bits, n) == Zeros(n - Len(bits)) \o bits

\* a + b for two naturals of the same number of bits; one bit longer.  A carry
\* enters position i when a position below it makes one and every position in
\* between passes it on.
AddBits(x, y) ==
    The({LET n == Len(a)
             carry(i) ==
                 IF \E j \in i + 1 .. n :
                       a[j] + b[j] = 2 /\ \A k \in i + 1 .. j - 1 : a[k] + b[k] = 1
                 THEN 1 ELSE 0
         IN  <<carry(0)>> \o [i \in 1 .. n |-> (a[i] + b[i] + carry(i)) % 2] :
           a \in {x}, b \in {y}})

\* a - b for two naturals of the same number of bits, a >= b.
SubBits(x, y) ==
    The({LET n == Len(a)
             borrow(i) ==
                 IF \E j \in i + 1 .. n :
                       a[j] < b[j] /\ \A k \in i + 1 .. j - 1 : a[k] = b[k]
                 THEN 1 ELSE 0
         IN  [i \in 1 .. n |-> (a[i] - b[i] - borrow(i) + 2) % 2] :
           a \in {x}, b \in {y}})

\* a < b for two naturals of the same number of bits.
LessBits(x, y) ==
    \E a \in {x}, b \in {y} :
       \E i \in 1 .. Len(a) : a[i] < b[i] /\ \A j \in 1 .. i - 1 : a[j] = b[j]

\* The float64 nearest to bits * 2^e, ties to even.
RoundToFloat(neg, bits, e) ==
    The({LET n == Len(s)
         IN  IF n = 0 THEN FloatZero
             ELSE IF n <= SigBits
             THEN [neg |-> neg, exp |-> e + n - 1, sig |-> s \o Zeros(SigBits - n)]
             ELSE LET kept == SubSeq(s, 1, SigBits)
                      rest == SubSeq(s, SigBits + 1, n)
                      half == <<1>> \o Zeros(n - SigBits - 1)
                      up == LessBits(half, rest) \/ (rest = half /\ kept[SigBits] = 1)
                  IN  The({IF r[1] = 1
                           THEN [neg |-> neg, exp |-> e + n, sig |-> SubSeq(r, 1, SigBits)]
                           ELSE [neg |-> neg, exp |-> e + n - 1, sig |-> Tail(r)] :
                             r \in {IF up THEN AddBits(kept, Zeros(SigBits - 1) \o <<1>>)
                                    ELSE <<0>> \o kept}}) :
           s \in {StripZeros(bits)}})

\* x + y
FloatAdd(x0, y0) ==
    The({IF IsZero(x) THEN y
         ELSE IF IsZero(y) THEN x
         ELSE LET ex == x.exp - (SigBits - 1)
                  ey == y.exp - (SigBits - 1)
                  e == Min(ex, ey)
                  n == SigBits + Max(ex, ey) - e
              IN  The({IF x.neg = y.neg THEN RoundToFloat(x.neg, AddBits(a, b), e)
                       ELSE IF LessBits(a, b) THEN RoundToFloat(y.neg, SubBits(b, a), e)
                       ELSE RoundToFloat(x.neg, SubBits(a, b), e) :
                         a \in {PadLeft(x.sig \o Zeros(ex - e), n)},
                         b \in {PadLeft(y.sig \o Zeros(ey - e), n)}}) :
           x \in {x0}, y \in {y0}})

\* x / 2
FloatHalf(x0) == The({IF IsZero(x) THEN x ELSE [x EXCEPT !.exp = @ - 1] : x \in {x0}})

\* x < y
FloatLess(x0, y0) ==
    LET below(a, b) ==
            IF IsZero(a) THEN ~IsZero(b)
            ELSE ~IsZero(b) /\ (a.exp < b.exp \/ (a.exp = b.exp /\ LessBits(a.sig, b.sig)))
    IN  \E x \in {x0}, y \in {y0} :
           IF x.neg # y.neg THEN x.neg /\ ~(IsZero(x) /\ IsZero(y))
           ELSE IF x.neg THEN below(y, x) ELSE below(x, y)

\* math.Max and math.Min
FloatMax(x0, y0) == The({IF FloatLess(x, y) THEN y ELSE x : x \in {x0}, y \in {y0}})

FloatMin(x0, y0) == The({IF FloatLess(y, x) THEN y ELSE x : x \in {x0}, y \in {y0}})

\* n / d scaled by a power of two into [1, 2), with the power.
RECURSIVE Scale(_, _, _)
Scale(n, d, e) ==
    IF n >= 2 * d THEN Scale(n, 2 * d, e + 1)
    ELSE IF n < d THEN Scale(2 * n, d, e - 1)
    ELSE [n |-> n, d |-> d, e |-> e]

\* 2^j modulo d, for a d whose square is an integer of the machine.
RECURSIVE PowMod(_, _)
PowMod(j, d) ==
    IF j <= 16 THEN (2 ^ j) % d ELSE (PowMod(j - 16, d) * ((2 ^ 16) % d)) % d

\* What is left of r after k bits of r / d, r < d.
Remainder(r, d, k) == (r * PowMod(k, d)) % d

\* The first k bits of r / d after the binary point, r < d.
Quotient(r, d, k) == [i \in 1 .. k |-> (2 * Remainder(r, d, i - 1)) \div d]

\* The float64 encoding/json decodes from the decimal with the given number of
\* hundredths: the nearest one.  The bits past the significand are one guard
\* bit and one bit that says whether anything is left.
ParseDecimal(hundredths) ==
    IF hundredths = 0 THEN FloatZero
    ELSE The({LET r == sc.n - sc.d
                  sticky == IF Remainder(r, sc.d, SigBits) = 0 THEN 0 ELSE 1
              IN  RoundToFloat(hundredths < 0,
                               <<1>> \o Quotient(r, sc.d, SigBits) \o <<sticky>>,
                               sc.e - SigBits - 1) :
                sc \in {Scale(IF hundredths < 0 THEN -hundredths ELSE hundredths, 100, 0)}})

\* strings.ReplaceAll(name, " ", "_")
ReplaceSpaces(name) == [i \in 1 .. Len(name) |-> IF name[i] = " " THEN "_" ELSE name[i]]

AgentIDModulus == 10000
RunIDModulus == 100000
WorkflowIDModulus == 10000

\* time.Now().UnixNano(): the readings a call may see, given the modulus its ID
\* generator applies: some nanosecond, the next one, and the one a modulus later.
\* Two calls may read the same value.
ClockReadings(modulus) == {0, 1, modulus}

generateAgentID(name, now) == <<"agent", ReplaceSpaces(name), now % AgentIDModulus>>

generateRunID(now) == <<"run", now % RunIDModulus>>

generateWorkflowID(name, now) == <<"wf", ReplaceSpaces(name), now % WorkflowIDModulus>>

(***************************************************************************)
(* What a call returns: the tool that ran, whether it returned a Go error  *)
(* (a hard error), the request and the JSON value or the error text.       *)
(***************************************************************************)
\* hist is history for stating properties: what happened inside the call.
Ret(op, hard, req, val) ==
    [op |-> op, hard |-> hard, req |-> req, val |-> val, hist |-> << >>]

NoRet == Ret("none", FALSE, << >>, << >>)

\* A step inside a call that returns nothing yet.
Internal == Ret("step", FALSE, << >>, << >>)

NoEvolve == [pc |-> "idle"]

\* Some runAgent body is between its two critical sections, inside
\* w.executeAgent (line 326), where the LLM abstraction is called.
InFlight ==
    \E c \in Callers : \E i \in DOMAIN calls[c].frames : calls[c].frames[i].pc = "call"

\* w.mu as it would be were it held from the lookup of runAgent to its return.
\* evolve running without the lock of line 606.
LockNotTaken == TRUE

LockHeldAcrossCall == evo.pc = "idle" /\ ~InFlight

\* w.mu is free: no evolve call is inside its critical section.  Every other
\* critical section of the worker is one step of the model.
LockFree == evo.pc = "idle"

(***************************************************************************)
(* Agent management.                                                       *)
(***************************************************************************)
DefaultFitness == 50

NewGenome(agentID, req) ==
    [ID |-> agentID, Name |-> req.name, Model |-> req.model, Provider |-> req.provider,
     SystemPrompt |-> req.system_prompt, Tools |-> req.tools,
     Temperature |-> ParseDecimal(req.temperature), MaxTokens |-> req.max_tokens,
     Fitness |-> DefaultFitness, Generation |-> 0, ParentIDs |-> << >>]

RegisterRequestInvalid(req) == req.name = EmptyStr \/ req.model = ""

registerAgent(req, now) ==
    IF RegisterRequestInvalid(req)
    THEN /\ last' = Ret("register", TRUE, req, <<"name and model required">>)
         /\ UNCHANGED <<Agents, Runs, Workflows, LLMProvider, calls, evo, issued, evolutions, heap>>
    ELSE LET agentID == generateAgentID(req.name, now)
             tools == DecodeStrings(heap, req.tools)
             agent == NewGenome(agentID, [req EXCEPT !.tools = tools.slice])
         IN  /\ LockFree
             /\ Len(issued) < MaxRegistrations
             /\ heap' = tools.heap
             /\ Agents' = Put(Agents, agentID, agent)
             /\ issued' = Append(issued, agentID)
             /\ last' = Ret("register", FALSE, req,
                            [agent_id |-> agentID, agent |-> Marshal(heap', agent)])
             /\ UNCHANGED <<Runs, Workflows, LLMProvider, calls, evo, evolutions>>

getAgent(agentID) ==
    /\ LockFree
    /\ last' = IF agentID \in DOMAIN Agents
               THEN Ret("get", FALSE, agentID, Marshal(heap, Agents[agentID]))
               ELSE Ret("get", TRUE, agentID, <<"agent not found", agentID>>)
    /\ UNCHANGED <<Agents, Runs, Workflows, LLMProvider, calls, evo, issued, evolutions, heap>>

\* deleteAgent removing the runs of the genome with it.
deleteAgentCascades(agentID) ==
    /\ LockFree
    /\ IF agentID \notin DOMAIN Agents
       THEN /\ last' = Ret("delete", TRUE, agentID, <<"agent not found", agentID>>)
            /\ UNCHANGED <<Agents, Runs>>
       ELSE /\ Agents' = Remove(Agents, agentID)
            /\ Runs' = [id \in {r \in DOMAIN Runs : Runs[r].GenomeID # agentID} |-> Runs[id]]
            /\ last' = Ret("delete", FALSE, agentID, [deleted |-> TRUE, agent_id |-> agentID])
    /\ UNCHANGED <<Workflows, LLMProvider, calls, evo, issued, evolutions, heap>>

deleteAgent(agentID) ==
    /\ LockFree
    /\ IF agentID \notin DOMAIN Agents
       THEN /\ last' = Ret("delete", TRUE, agentID, <<"agent not found", agentID>>)
            /\ UNCHANGED Agents
       ELSE /\ Agents' = Remove(Agents, agentID)
            /\ last' = Ret("delete", FALSE, agentID, [deleted |-> TRUE, agent_id |-> agentID])
    /\ UNCHANGED <<Runs, Workflows, LLMProvider, calls, evo, issued, evolutions, heap>>

(***************************************************************************)
(* Execution: runAgent.  One call is a frame that moves                     *)
(*   start -> create -> call -> done                                       *)
(* with one step per critical section: the lookup under RLock (lines       *)
(* 303-305), the creation of the run under Lock (321-323), and the write   *)
(* of the terminal status under Lock (345-356).  A frame at "call" has its *)
(* LLM call in flight and holds no lock.                                   *)
(***************************************************************************)
NoAgent == << >>

NoResult == << >>

Frame(agentID, input) ==
    [pc |-> "start", agent_id |-> agentID, input |-> input,
     agent |-> NoAgent, run_id |-> << >>, res |-> NoResult]

\* The pair ([]byte, error) a handler returns: a JSON object, or a Go error.
Ok(json) == [hard |-> FALSE, json |-> json, err |-> EmptyStr]

HardError(text) == [hard |-> TRUE, json |-> << >>, err |-> text]

RunRequestInvalid(f) == f.agent_id = << >> \/ f.input = EmptyStr

\* runAgent up to the end of its first critical section (lines 291-309).
runAgentLookup(f) ==
    IF RunRequestInvalid(f)
    THEN [f EXCEPT !.pc = "done", !.res = HardError(<<"agent_id and input required">>)]
    ELSE IF f.agent_id \notin DOMAIN Agents
    THEN [f EXCEPT !.pc = "done", !.res = HardError(<<"agent not found", f.agent_id>>)]
    ELSE [f EXCEPT !.pc = "create", !.agent = Agents[f.agent_id]]

NewRun(runID, f) ==
    [RunID |-> runID, GenomeID |-> f.agent_id, Input |-> f.input, Output |-> EmptyStr,
     Status |-> "running", Fitness |-> 0, Completed |-> FALSE, Error |-> EmptyStr]

\* Lines 311-323: the frame after the run is created, and the ledger after it.
runAgentCreateFrame(f, now) == [f EXCEPT !.pc = "call", !.run_id = generateRunID(now)]

runAgentCreateRuns(f, now) == Put(Runs, generateRunID(now), NewRun(generateRunID(now), f))

\* The generated texts and the errors the LLM abstraction may return.
LLMTexts == {EmptyStr, <<"y">>}

LLMErrors == {<<"llm unavailable">>}

DeadlineExceeded == <<"context deadline exceeded">>

Simulated(name, input) ==
    <<"[Simulated] Agent '">> \o name \o <<"' would process: ">> \o input

\* Execute with the fallback looking at the context as the provider's call does.
ExecuteHonoursDeadline(f, provider, expired) ==
    IF expired
    THEN {[ok |-> FALSE, text |-> DeadlineExceeded]}
    ELSE IF provider # "nil"
    THEN {[ok |-> TRUE, text |-> t] : t \in LLMTexts}
           \cup {[ok |-> FALSE, text |-> e] : e \in LLMErrors}
    ELSE {[ok |-> TRUE, text |-> Simulated(f.agent.Name, f.input)]}

\* Lines 326-342: what (output, execErr) may be after the execution.  With a
\* provider the call returns a text or an error, and the error of the context once
\* the deadline has expired; without one the placeholder is built and the context
\* is not looked at.
Execute(f, provider, expired) ==
    IF provider # "nil"
    THEN IF expired
         THEN {[ok |-> FALSE, text |-> DeadlineExceeded]}
         ELSE {[ok |-> TRUE, text |-> t] : t \in LLMTexts}
                \cup {[ok |-> FALSE, text |-> e] : e \in LLMErrors}
    ELSE {[ok |-> TRUE, text |-> Simulated(f.agent.Name, f.input)]}

\* CompleteRun without line 349.
CompleteRunDropsError(existingRun, exec) ==
    IF ~exec.ok
    THEN [existingRun EXCEPT !.Status = "failed", !.Completed = TRUE]
    ELSE [existingRun EXCEPT !.Status = "completed", !.Output = exec.text, !.Completed = TRUE]

\* Completion writing back the record as runAgent created it (line 311) instead of
\* the record it reads under the lock at line 346.
CompleteRunFromCreated(existingRun, exec) ==
    IF ~exec.ok
    THEN [existingRun EXCEPT !.Status = "failed", !.Error = exec.text, !.Completed = TRUE,
                             !.Fitness = 0]
    ELSE [existingRun EXCEPT !.Status = "completed", !.Output = exec.text,
                             !.Completed = TRUE, !.Fitness = 0]

\* Lines 344-356: the record written under the run's ID.
CompleteRun(existingRun, exec) ==
    IF ~exec.ok
    THEN [existingRun EXCEPT !.Status = "failed", !.Error = exec.text, !.Completed = TRUE]
    ELSE [existingRun EXCEPT !.Status = "completed", !.Output = exec.text, !.Completed = TRUE]

\* Lines 358-370: the JSON object runAgent returns.
RunAgentJSON(runID, exec) ==
    IF ~exec.ok
    THEN [run_id |-> runID, status |-> "failed", error |-> exec.text]
    ELSE [run_id |-> runID, status |-> "completed", output |-> exec.text]

runAgentFinishFrame(f, exec) == [f EXCEPT !.pc = "done", !.res = Ok(RunAgentJSON(f.run_id, exec))]

runAgentFinishRuns(f, exec) == Put(Runs, f.run_id, CompleteRun(Runs[f.run_id], exec))

(***************************************************************************)
(* The calls in progress.  A caller is idle or inside one runAgent,        *)
(* runParallel (one frame per goroutine) or runWorkflow (the frame of the  *)
(* step being run, and the loop's locals).                                 *)
(***************************************************************************)
Idle ==
    [op |-> "idle", req |-> << >>, frames |-> << >>, idx |-> 0, wf |-> << >>,
     stepResults |-> EmptyMap, lastOutput |-> EmptyStr, hist |-> << >>]

\* --- runAgent called by a client -----------------------------------------
RunAgentStart(c, agentID, input) ==
    LET f == runAgentLookup(Frame(agentID, input))
        req == [agent_id |-> agentID, input |-> input]
    IN  /\ calls[c].op = "idle"
        /\ IF f.pc = "done"
           THEN /\ RunRequestInvalid(f) \/ LockFree
                /\ last' = Ret("runAgent", TRUE, req, f.res.err)
                /\ UNCHANGED calls
           ELSE /\ LockFree
                /\ calls' = [calls EXCEPT ![c] = [Idle EXCEPT !.op = "runAgent", !.req = req,
                                                              !.frames = <<f>>]]
                /\ last' = Internal
        /\ UNCHANGED <<Agents, Runs, Workflows, LLMProvider, evo, issued, evolutions, heap>>

RunAgentCreate(c, now) ==
    /\ calls[c].op = "runAgent"
    /\ calls[c].frames[1].pc = "create"
    /\ LockFree
    /\ Runs' = runAgentCreateRuns(calls[c].frames[1], now)
    /\ calls' = [calls EXCEPT ![c].frames[1] = runAgentCreateFrame(@, now)]
    /\ last' = Internal
    /\ UNCHANGED <<Agents, Workflows, LLMProvider, evo, issued, evolutions, heap>>

\* runAgent closing the run only while its genome is still registered.
RunAgentFinishIfRegistered(c, expired) ==
    /\ calls[c].op = "runAgent"
    /\ calls[c].frames[1].pc = "call"
    /\ LockFree
    /\ \E exec \in Execute(calls[c].frames[1], LLMProvider, expired) :
          LET f == calls[c].frames[1]
          IN  /\ Runs' = IF f.agent_id \in DOMAIN Agents THEN runAgentFinishRuns(f, exec)
                         ELSE Runs
              /\ last' = [Ret("runAgent", FALSE, calls[c].req,
                              runAgentFinishFrame(f, exec).res.json)
                          EXCEPT !.hist = [expired |-> expired, agent |-> f.agent, exec |-> exec]]
    /\ calls' = [calls EXCEPT ![c] = Idle]
    /\ UNCHANGED <<Agents, Workflows, LLMProvider, evo, issued, evolutions, heap>>

RunAgentFinish(c, expired) ==
    /\ calls[c].op = "runAgent"
    /\ calls[c].frames[1].pc = "call"
    /\ LockFree
    /\ \E exec \in Execute(calls[c].frames[1], LLMProvider, expired) :
          LET f == calls[c].frames[1]
          IN  /\ Runs' = runAgentFinishRuns(f, exec)
              /\ last' = [Ret("runAgent", FALSE, calls[c].req,
                              runAgentFinishFrame(f, exec).res.json)
                          EXCEPT !.hist = [expired |-> expired, agent |-> f.agent, exec |-> exec]]
    /\ calls' = [calls EXCEPT ![c] = Idle]
    /\ UNCHANGED <<Agents, Workflows, LLMProvider, evo, issued, evolutions, heap>>

\* --- runParallel ----------------------------------------------------------
\* m[key].(string) on a decoded JSON object: the zero value when the key is absent.
JSONString(m, key) == IF key \in DOMAIN m THEN m[key] ELSE EmptyStr

JSONStatus(m) == IF "status" \in DOMAIN m THEN m.status ELSE ""

\* ParallelResult with line 423 moved into the branch of a successful runAgent.
ParallelResultNoID(agentID, res) ==
    IF res.hard
    THEN [agent_id |-> << >>, run_id |-> << >>, output |-> EmptyStr,
          status |-> "failed", error |-> res.err]
    ELSE [agent_id |-> agentID, run_id |-> JSONString(res.json, "run_id"),
          output |-> JSONString(res.json, "output"),
          status |-> JSONStatus(res.json), error |-> EmptyStr]

\* Lines 422-436: the slot a goroutine writes from what its runAgent returned.
ParallelResult(agentID, res) ==
    IF res.hard
    THEN [agent_id |-> agentID, run_id |-> << >>, output |-> EmptyStr,
          status |-> "failed", error |-> res.err]
    ELSE [agent_id |-> agentID, run_id |-> JSONString(res.json, "run_id"),
          output |-> JSONString(res.json, "output"),
          status |-> JSONStatus(res.json), error |-> EmptyStr]

\* RunParallelRefusal with >= for > at line 389.
RunParallelRefusalOffByOne(agentIDs, input) ==
    IF Len(agentIDs) = 0 \/ input = EmptyStr THEN <<"agent_ids and input required">>
    ELSE IF Len(agentIDs) >= MaxParallel THEN <<"too many agents", MaxParallel>>
    ELSE EmptyStr

\* Lines 384-391: the request is refused before any goroutine is started.
RunParallelRefusal(agentIDs, input) ==
    IF Len(agentIDs) = 0 \/ input = EmptyStr THEN <<"agent_ids and input required">>
    ELSE IF Len(agentIDs) > MaxParallel THEN <<"too many agents", MaxParallel>>
    ELSE EmptyStr

RunParallelStart(c, agentIDs, input) ==
    LET req == [agent_ids |-> agentIDs, input |-> input]
        refusal == RunParallelRefusal(agentIDs, input)
    IN  /\ calls[c].op = "idle"
        /\ IF refusal # EmptyStr
           THEN /\ last' = Ret("runParallel", TRUE, req, refusal)
                /\ UNCHANGED calls
           ELSE /\ calls' = [calls EXCEPT ![c] =
                      [Idle EXCEPT !.op = "runParallel", !.req = req,
                         !.frames = [i \in 1 .. Len(agentIDs) |-> Frame(agentIDs[i], input)]]]
                /\ last' = Internal
        /\ UNCHANGED <<Agents, Runs, Workflows, LLMProvider, evo, issued, evolutions, heap>>

\* Goroutine i of the batch reaches the end of runAgent's first critical section.
GoLookup(c, i) ==
    /\ calls[c].op = "runParallel"
    /\ i \in 1 .. Len(calls[c].frames)
    /\ calls[c].frames[i].pc = "start"
    /\ LockFree
    /\ calls' = [calls EXCEPT ![c].frames[i] = runAgentLookup(@)]
    /\ last' = Internal
    /\ UNCHANGED <<Agents, Runs, Workflows, LLMProvider, evo, issued, evolutions, heap>>

GoCreate(c, i, now) ==
    /\ calls[c].op = "runParallel"
    /\ i \in 1 .. Len(calls[c].frames)
    /\ calls[c].frames[i].pc = "create"
    /\ LockFree
    /\ Runs' = runAgentCreateRuns(calls[c].frames[i], now)
    /\ calls' = [calls EXCEPT ![c].frames[i] = runAgentCreateFrame(@, now)]
    /\ last' = Internal
    /\ UNCHANGED <<Agents, Workflows, LLMProvider, evo, issued, evolutions, heap>>

GoFinish(c, i, expired) ==
    /\ calls[c].op = "runParallel"
    /\ i \in 1 .. Len(calls[c].frames)
    /\ calls[c].frames[i].pc = "call"
    /\ LockFree
    /\ \E exec \in Execute(calls[c].frames[i], LLMProvider, expired) :
          /\ Runs' = runAgentFinishRuns(calls[c].frames[i], exec)
          /\ calls' = [calls EXCEPT ![c].frames[i] = runAgentFinishFrame(@, exec),
                                    ![c].hist = Put(@, i, exec)]
    /\ last' = Internal
    /\ UNCHANGED <<Agents, Workflows, LLMProvider, evo, issued, evolutions, heap>>

\* RunParallelJoin returning the first slot's Go error as the error of the batch.
RunParallelJoinAborts(c) ==
    /\ calls[c].op = "runParallel"
    /\ \A i \in 1 .. Len(calls[c].frames) : calls[c].frames[i].pc = "done"
    /\ LET results == [i \in 1 .. Len(calls[c].frames) |->
                          ParallelResult(calls[c].req.agent_ids[i], calls[c].frames[i].res)]
           hist == [exec |-> calls[c].hist,
                    agents |-> [i \in 1 .. Len(calls[c].frames) |-> calls[c].frames[i].agent]]
       IN  last' = IF \E i \in DOMAIN results : calls[c].frames[i].res.hard
                   THEN [Ret("runParallel", TRUE, calls[c].req, <<"batch failed">>)
                         EXCEPT !.hist = hist]
                   ELSE [Ret("runParallel", FALSE, calls[c].req,
                             [results |-> results, count |-> Len(results)])
                         EXCEPT !.hist = hist]
    /\ calls' = [calls EXCEPT ![c] = Idle]
    /\ UNCHANGED <<Agents, Runs, Workflows, LLMProvider, evo, issued, evolutions, heap>>

\* RunParallelJoin with wg.Wait() returning once one goroutine is done: the slots
\* of the others still hold the zero value.
RunParallelJoinFirst(c) ==
    /\ calls[c].op = "runParallel"
    /\ \E i \in 1 .. Len(calls[c].frames) : calls[c].frames[i].pc = "done"
    /\ LET results == [i \in 1 .. Len(calls[c].frames) |->
                          IF calls[c].frames[i].pc = "done"
                          THEN ParallelResult(calls[c].req.agent_ids[i], calls[c].frames[i].res)
                          ELSE [agent_id |-> << >>, run_id |-> << >>, output |-> EmptyStr,
                                status |-> "", error |-> EmptyStr]]
       IN  last' = [Ret("runParallel", FALSE, calls[c].req,
                        [results |-> results, count |-> Len(results)])
                    EXCEPT !.hist = [exec |-> calls[c].hist,
                                     agents |-> [i \in 1 .. Len(calls[c].frames) |->
                                                    calls[c].frames[i].agent]]]
    /\ calls' = [calls EXCEPT ![c] = Idle]
    /\ UNCHANGED <<Agents, Runs, Workflows, LLMProvider, evo, issued, evolutions, heap>>

\* wg.Wait() returns (line 440) and the results are marshalled.
RunParallelJoin(c) ==
    /\ calls[c].op = "runParallel"
    /\ \A i \in 1 .. Len(calls[c].frames) : calls[c].frames[i].pc = "done"
    /\ LET results == [i \in 1 .. Len(calls[c].frames) |->
                          ParallelResult(calls[c].req.agent_ids[i], calls[c].frames[i].res)]
       IN  last' = [Ret("runParallel", FALSE, calls[c].req,
                        [results |-> results, count |-> Len(results)])
                    EXCEPT !.hist = [exec |-> calls[c].hist,
                                     agents |-> [i \in 1 .. Len(calls[c].frames) |->
                                                    calls[c].frames[i].agent]]]
    /\ calls' = [calls EXCEPT ![c] = Idle]
    /\ UNCHANGED <<Agents, Runs, Workflows, LLMProvider, evo, issued, evolutions, heap>>

(***************************************************************************)
(* Workflows.  A step is [StepID, AgentID, Parallel, Inputs], Inputs being *)
(* the map from a placeholder's name to the step whose output replaces it. *)
(* In an input text the substring "${a}" is the one symbol "${a}".         *)
(***************************************************************************)
NewWorkflow(workflowID, name, steps) == [ID |-> workflowID, Name |-> name, Steps |-> steps]

createWorkflow(name, steps, now) ==
    LET req == [name |-> name, steps |-> steps]
        workflowID == generateWorkflowID(name, now)
        workflow == NewWorkflow(workflowID, name, steps)
    IN  IF name = EmptyStr \/ Len(steps) = 0
        THEN /\ last' = Ret("createWorkflow", TRUE, req, <<"name and steps required">>)
             /\ UNCHANGED <<Agents, Runs, Workflows, LLMProvider, calls, evo, issued, evolutions, heap>>
        ELSE /\ LockFree
             /\ Workflows' = Put(Workflows, workflowID, workflow)
             /\ last' = Ret("createWorkflow", FALSE, req,
                            [workflow_id |-> workflowID, workflow |-> workflow])
             /\ UNCHANGED <<Agents, Runs, LLMProvider, calls, evo, issued, evolutions, heap>>

\* The key "_initial" of stepResults; a step ID is a string too.
InitialKey == <<"_initial">>

\* "${" + key + "}"
Placeholder(key) == [a |-> "${a}", b |-> "${b}"][key]

\* strings.ReplaceAll(s, old, new) for a one-symbol old.
RECURSIVE ReplaceAll(_, _, _)
ReplaceAll(s, old, new) ==
    IF s = EmptyStr THEN EmptyStr
    ELSE (IF Head(s) = old THEN new ELSE <<Head(s)>>) \o ReplaceAll(Tail(s), old, new)

\* Lines 494-498: the range over step.Inputs visits the keys in an order the
\* runtime chooses; the set of the texts that may result.
RECURSIVE Substitute(_, _, _, _)
Substitute(input, todo, inputs, stepResults) ==
    IF todo = {} THEN {input}
    ELSE UNION { Substitute(IF inputs[key] \in DOMAIN stepResults
                            THEN ReplaceAll(input, Placeholder(key), stepResults[inputs[key]])
                            ELSE input,
                            todo \ {key}, inputs, stepResults) : key \in todo }

\* Lines 487-498: the inputs step may be run with.
StepInputs(step, stepResults, lastOutput) ==
    LET recorded == IF step.StepID \in DOMAIN stepResults
                    THEN stepResults[step.StepID] ELSE EmptyStr
        input == IF recorded = EmptyStr THEN lastOutput ELSE recorded
    IN  Substitute(input, DOMAIN step.Inputs, step.Inputs, stepResults)

WorkflowFailed(step, err, stepResults) ==
    [status |-> "failed", step |-> step.StepID, error |-> err, results |-> stepResults]

WorkflowCompleted(workflow, lastOutput, stepResults) ==
    [status |-> "completed", workflow |-> workflow.Name, output |-> lastOutput,
     results |-> stepResults]

\* Lines 459-484.
RunWorkflowStart(c, workflowID, initialInput) ==
    LET req == [workflow_id |-> workflowID, initial_input |-> initialInput]
    IN  /\ calls[c].op = "idle"
        /\ IF workflowID = << >> \/ initialInput = EmptyStr
           THEN /\ last' = Ret("runWorkflow", TRUE, req,
                               <<"workflow_id and initial_input required">>)
                /\ UNCHANGED calls
           ELSE /\ LockFree
                /\ IF workflowID \notin DOMAIN Workflows
                   THEN /\ last' = Ret("runWorkflow", TRUE, req,
                                       <<"workflow not found", workflowID>>)
                        /\ UNCHANGED calls
                   ELSE /\ calls' = [calls EXCEPT ![c] =
                              [Idle EXCEPT !.op = "runWorkflow", !.req = req, !.idx = 1,
                                 !.wf = Workflows[workflowID],
                                 !.stepResults = Put(EmptyMap, InitialKey, initialInput),
                                 !.lastOutput = initialInput,
                                 !.hist = [failed |-> 0, created |-> {}]]]
                        /\ last' = Internal
        /\ UNCHANGED <<Agents, Runs, Workflows, LLMProvider, evo, issued, evolutions, heap>>

\* The loop computes the step's input and calls runAgent, which returns a Go error
\* (lines 507-514) or reaches the end of its first critical section.
WfStepLookup(c) ==
    /\ calls[c].op = "runWorkflow"
    /\ calls[c].frames = << >>
    /\ LET call == calls[c]
           step == call.wf.Steps[call.idx]
       IN  \E input \in StepInputs(step, call.stepResults, call.lastOutput) :
              LET f == runAgentLookup(Frame(step.AgentID, input))
              IN  /\ RunRequestInvalid(f) \/ LockFree
                  /\ IF f.pc = "done"
                     THEN /\ last' = [Ret("runWorkflow", FALSE, call.req,
                                          WorkflowFailed(step, f.res.err, call.stepResults))
                                      EXCEPT !.hist =
                                         [call.hist EXCEPT !.failed =
                                             IF @ = 0 /\ ~RunRequestInvalid(f)
                                             THEN call.idx ELSE @]]
                          /\ calls' = [calls EXCEPT ![c] = Idle]
                     ELSE /\ calls' = [calls EXCEPT ![c].frames = <<f>>]
                          /\ last' = Internal
    /\ UNCHANGED <<Agents, Runs, Workflows, LLMProvider, evo, issued, evolutions, heap>>

WfStepCreate(c, now) ==
    /\ calls[c].op = "runWorkflow"
    /\ calls[c].frames # << >>
    /\ calls[c].frames[1].pc = "create"
    /\ LockFree
    /\ Runs' = runAgentCreateRuns(calls[c].frames[1], now)
    /\ calls' = [calls EXCEPT ![c].frames[1] = runAgentCreateFrame(@, now),
                              ![c].hist.created = @ \cup {calls[c].idx}]
    /\ last' = Internal
    /\ UNCHANGED <<Agents, Workflows, LLMProvider, evo, issued, evolutions, heap>>

\* WfStepFinish going on from a step flagged parallel without waiting for its run:
\* the run stays as it is and the step's output is recorded as empty.
WfStepFinishParallel(c, expired) ==
    /\ calls[c].op = "runWorkflow"
    /\ calls[c].frames # << >>
    /\ calls[c].frames[1].pc = "call"
    /\ LockFree
    /\ \E exec \in Execute(calls[c].frames[1], LLMProvider, expired) :
          LET call == calls[c]
              step == call.wf.Steps[call.idx]
              res == runAgentFinishFrame(call.frames[1], exec).res
              output == IF step.Parallel THEN EmptyStr ELSE JSONString(res.json, "output")
              stepResults == Put(call.stepResults, step.StepID, output)
              hist == [call.hist EXCEPT !.failed = IF @ = 0 /\ ~exec.ok THEN call.idx ELSE @]
          IN  /\ Runs' = IF step.Parallel THEN Runs ELSE runAgentFinishRuns(call.frames[1], exec)
              /\ IF call.idx = Len(call.wf.Steps)
                 THEN /\ last' = [Ret("runWorkflow", FALSE, call.req,
                                      WorkflowCompleted(call.wf, output, stepResults))
                                  EXCEPT !.hist = hist]
                      /\ calls' = [calls EXCEPT ![c] = Idle]
                 ELSE /\ calls' = [calls EXCEPT ![c].frames = << >>,
                                                ![c].idx = @ + 1,
                                                ![c].stepResults = stepResults,
                                                ![c].lastOutput = output,
                                                ![c].hist = hist]
                      /\ last' = Internal
    /\ UNCHANGED <<Agents, Workflows, LLMProvider, evo, issued, evolutions, heap>>

\* runAgent writes the terminal status and returns; lines 516-534 record the
\* output and go on to the next step, or return after the last one.
WfStepFinish(c, expired) ==
    /\ calls[c].op = "runWorkflow"
    /\ calls[c].frames # << >>
    /\ calls[c].frames[1].pc = "call"
    /\ LockFree
    /\ \E exec \in Execute(calls[c].frames[1], LLMProvider, expired) :
          LET call == calls[c]
              step == call.wf.Steps[call.idx]
              res == runAgentFinishFrame(call.frames[1], exec).res
              output == JSONString(res.json, "output")
              stepResults == Put(call.stepResults, step.StepID, output)
              hist == [call.hist EXCEPT !.failed = IF @ = 0 /\ ~exec.ok THEN call.idx ELSE @]
          IN  /\ Runs' = runAgentFinishRuns(call.frames[1], exec)
              /\ IF call.idx = Len(call.wf.Steps)
                 THEN /\ last' = [Ret("runWorkflow", FALSE, call.req,
                                      WorkflowCompleted(call.wf, output, stepResults))
                                  EXCEPT !.hist = hist]
                      /\ calls' = [calls EXCEPT ![c] = Idle]
                 ELSE /\ calls' = [calls EXCEPT ![c].frames = << >>,
                                                ![c].idx = @ + 1,
                                                ![c].stepResults = stepResults,
                                                ![c].lastOutput = output,
                                                ![c].hist = hist]
                      /\ last' = Internal
    /\ UNCHANGED <<Agents, Workflows, LLMProvider, evo, issued, evolutions, heap>>

(***************************************************************************)
(* Evaluation and results.                                                 *)
(***************************************************************************)
\* Lines 559-565.
\* EvaluateFitness with the correctness flag tested before the fitness given.
EvaluateFitnessCorrectnessFirst(fitness, correctness) ==
    IF correctness THEN 100 ELSE IF fitness = 0 THEN 50 ELSE fitness

EvaluateFitness(fitness, correctness) ==
    IF fitness = 0 /\ correctness THEN 100
    ELSE IF fitness = 0 THEN 50
    ELSE fitness

\* evaluate with the write of line 568 before the check of line 555.
evaluateWritesFirst(runID, fitness, correctness) ==
    LET req == [run_id |-> runID, fitness |-> fitness, correctness |-> correctness]
        f == EvaluateFitness(fitness, correctness)
        run == IF runID \in DOMAIN Runs THEN Runs[runID]
               ELSE NewRun(<< >>, Frame(<< >>, EmptyStr))
    IN  /\ LockFree
        /\ Runs' = Put(Runs, runID, [run EXCEPT !.Fitness = f])
        /\ IF runID \notin DOMAIN Runs
           THEN /\ last' = Ret("evaluate", TRUE, req, <<"run not found", runID>>)
                /\ UNCHANGED Agents
           ELSE /\ Agents' = IF run.GenomeID \in DOMAIN Agents
                              THEN Put(Agents, run.GenomeID,
                                       [Agents[run.GenomeID] EXCEPT !.Fitness = f])
                              ELSE Agents
                /\ last' = Ret("evaluate", FALSE, req,
                               [run_id |-> runID, fitness |-> f, updated |-> TRUE])
        /\ UNCHANGED <<Workflows, LLMProvider, calls, evo, issued, evolutions, heap>>

evaluate(runID, fitness, correctness) ==
    LET req == [run_id |-> runID, fitness |-> fitness, correctness |-> correctness]
    IN  /\ LockFree
        /\ IF runID \notin DOMAIN Runs
           THEN /\ last' = Ret("evaluate", TRUE, req, <<"run not found", runID>>)
                /\ UNCHANGED <<Agents, Runs>>
           ELSE LET run == Runs[runID]
                    f == EvaluateFitness(fitness, correctness)
                IN  /\ Runs' = Put(Runs, runID, [run EXCEPT !.Fitness = f])
                    /\ Agents' = IF run.GenomeID \in DOMAIN Agents
                                 THEN Put(Agents, run.GenomeID,
                                          [Agents[run.GenomeID] EXCEPT !.Fitness = f])
                                 ELSE Agents
                    /\ last' = Ret("evaluate", FALSE, req,
                                   [run_id |-> runID, fitness |-> f, updated |-> TRUE])
        /\ UNCHANGED <<Workflows, LLMProvider, calls, evo, issued, evolutions, heap>>

getResult(runID) ==
    /\ LockFree
    /\ last' = IF runID \in DOMAIN Runs
               THEN Ret("getResult", FALSE, runID, Runs[runID])
               ELSE Ret("getResult", TRUE, runID, <<"run not found", runID>>)
    /\ UNCHANGED <<Agents, Runs, Workflows, LLMProvider, calls, evo, issued, evolutions, heap>>

(***************************************************************************)
(* Evolution.  evolve holds w.mu from line 606 to its return, so its loops *)
(* are steps no other critical section can interleave with: evo.pc is      *)
(*   init -> (score -> fill)* -> save.                                     *)
(* math/rand is a choice among the values it can return.                   *)
(***************************************************************************)
\* rand.Float64() < rate, rate in hundredths: the truth values it can take.
Chance(rate) == {b \in BOOLEAN : (b => rate > 0) /\ (~b => rate < 100)}

\* (rand.Float64() - 0.5) * 0.2: the float64 nearest to these hundredths.
TemperatureDeltas == {-10, 9}

\* 0.3 + rand.Float64() * 0.7, in hundredths.
SimulatedScores == {30, 99}

\* "tool_" + fmt.Sprintf("%d", rand.Intn(100)): the names drawn.
SynthesizedTools == {"tool_7"}

PromptWindow == 50

RemoveAt(s, idx) == SubSeq(s, 1, idx) \o SubSeq(s, idx + 2, Len(s))

\* Lines 716-721.
\* mutate adding the delta without the clamp of line 720.
MutateTemperatureUnclamped(agent, rate) ==
    {agent.Temperature : b \in Chance(rate) \ {TRUE}}
      \cup {FloatAdd(agent.Temperature, ParseDecimal(delta)) :
               delta \in {d \in TemperatureDeltas : TRUE \in Chance(rate)}}

MutateTemperature(agent, rate) ==
    {agent.Temperature : b \in Chance(rate) \ {TRUE}}
      \cup {FloatMax(FloatZero, FloatMin(FloatTwo, FloatAdd(agent.Temperature, ParseDecimal(delta)))) :
               delta \in {d \in TemperatureDeltas : TRUE \in Chance(rate)}}

\* Lines 723-730.
MutatePrompt(agent, rate) ==
    {agent.SystemPrompt : b \in Chance(rate) \ {TRUE}}
      \cup (IF TRUE \in Chance(rate)
            THEN IF Len(agent.SystemPrompt) > PromptWindow
                 THEN {SubSeq(agent.SystemPrompt, start + 1, start + PromptWindow) :
                          start \in 0 .. (Len(agent.SystemPrompt) - PromptWindow - 1)}
                 ELSE {agent.SystemPrompt}
            ELSE {})

\* append(s[:idx], s[idx+1:]...), idx counted from 0: the tail is moved down inside
\* the array of s, which every slice over that array sees.
RemoveInPlace(h, s, idx) ==
    [heap |-> [h EXCEPT ![s.arr] = RemoveAt(SubSeq(@, 1, s.len), idx) \o SubSeq(@, s.len, Len(@))],
     slice |-> [s EXCEPT !.len = @ - 1]]

\* Lines 732-741: the slice mutated.Tools becomes, and the heap after it.
MutateTools(agent, rate) ==
    {[heap |-> heap, slice |-> agent.Tools] : b \in Chance(rate) \ {TRUE}}
      \cup (IF TRUE \in Chance(rate)
            THEN {RemoveInPlace(heap, agent.Tools, idx) : idx \in 0 .. (agent.Tools.len - 1)}
                   \cup {AppendOne(heap, agent.Tools, tool) : tool \in SynthesizedTools}
            ELSE {})

\* What mutate(agent, rate) may return, and the heap it leaves.
mutate(agent, rate) ==
    {[genome |-> [agent EXCEPT !.ID = << >>, !.Temperature = t, !.SystemPrompt = prompt,
                               !.Tools = tools.slice],
      heap |-> tools.heap] :
        t \in MutateTemperature(agent, rate),
        prompt \in MutatePrompt(agent, rate),
        tools \in MutateTools(agent, rate)}

Range(s) == {s[i] : i \in DOMAIN s}

RECURSIVE Orderings(_)
Orderings(S) ==
    IF S = {} THEN {<< >>}
    ELSE UNION {{<<x>> \o rest : rest \in Orderings(S \ {x})} : x \in S}

\* Lines 749-754.
CrossoverPrompts(parent1, parent2) ==
    {parent1.SystemPrompt}
      \cup (IF Len(parent1.SystemPrompt) > 0 /\ Len(parent2.SystemPrompt) > 0
            THEN {SubSeq(parent1.SystemPrompt, 1, Len(parent1.SystemPrompt) \div 2)
                    \o SubSeq(parent2.SystemPrompt, Len(parent2.SystemPrompt) \div 2 + 1,
                              Len(parent2.SystemPrompt))}
            ELSE {})

\* crossover keeping the tools in a list instead of a set: parent 1's tools followed
\* by the tools kept of parent 2.
CrossoverToolsAppended(parent1, parent2) ==
    {MakeSlice(heap, Elements(heap, parent1.Tools) \o kept,
               Len(Elements(heap, parent1.Tools) \o kept)) :
        kept \in {<< >>, Elements(heap, parent2.Tools)}}

\* Lines 756-769: the range over toolSet yields its keys in any order; they are
\* appended to a new slice of exactly that capacity.
CrossoverTools(parent1, parent2) ==
    {IF order = << >> THEN [heap |-> heap, slice |-> NilSlice]
     ELSE MakeSlice(heap, order, Len(order)) :
        order \in UNION {Orderings(Range(Elements(heap, parent1.Tools)) \cup kept) :
                            kept \in SUBSET Range(Elements(heap, parent2.Tools))}}

\* Line 772.
CrossoverTemperature(parent1, parent2) ==
    FloatHalf(FloatAdd(parent1.Temperature, parent2.Temperature))

\* What crossover(parent1, parent2) may return, and the heap it leaves.
crossover(parent1, parent2) ==
    {[genome |-> [parent1 EXCEPT !.SystemPrompt = prompt, !.Tools = tools.slice,
                     !.Temperature = CrossoverTemperature(parent1, parent2),
                     !.ID = << >>, !.Fitness = DefaultFitness],
      heap |-> tools.heap] :
        prompt \in CrossoverPrompts(parent1, parent2),
        tools \in CrossoverTools(parent1, parent2)}

Swap(s, i, j) == [s EXCEPT ![i] = s[j], ![j] = s[i]]

\* Lines 655-661, with the loops at (i, j), counted from 1.
RECURSIVE SortFrom(_, _, _)
SortFrom(population, i, j) ==
    IF i >= Len(population) THEN population
    ELSE IF j > Len(population) THEN SortFrom(population, i + 1, i + 2)
    ELSE SortFrom(IF population[j].score > population[i].score
                  THEN Swap(population, i, j) ELSE population, i, j + 1)

SortByFitness(population) == SortFrom(population, 1, 2)

\* Lines 596-604.
EvolveDefaults(req) ==
    [req EXCEPT !.population_size = IF @ = 0 THEN 10 ELSE @,
                !.generations = IF @ = 0 THEN 5 ELSE @,
                !.mutation_rate = IF @ = 0 THEN 10 ELSE @]

\* Lines 609-615.
EvolveParents(parentIDs) ==
    LET Known(id) == id \in DOMAIN Agents
        known == SelectSeq(parentIDs, Known)
    IN  [i \in 1 .. Len(known) |-> Agents[known[i]]]

Scored(genome) == [genome |-> genome, score |-> genome.Fitness]

\* Lines 606-627: the lock is taken, the parents are resolved.
EvolveStart(request) ==
    LET req == EvolveDefaults(request)
        parents == EvolveParents(req.parent_ids)
    IN  /\ LockFree
        /\ IF Len(parents) = 0
           THEN /\ last' = Ret("evolve", TRUE, request, <<"no valid parent agents found">>)
                /\ UNCHANGED evo
           ELSE IF req.population_size < 0
           THEN \* make([]scoredAgent, 0, n) panics for a negative n
                /\ last' = Ret("evolve", FALSE, request,
                               [panic |-> <<"makeslice: cap out of range">>])
                /\ UNCHANGED evo
           ELSE /\ evo' = [pc |-> "init", request |-> request, req |-> req,
                           parents |-> parents, population |-> << >>,
                           newPopulation |-> << >>, gen |-> 0, eliteCount |-> 0,
                           before |-> [id \in DOMAIN Agents |-> Marshal(heap, Agents[id])]]
                /\ last' = Internal
        /\ evolutions' = IF evo'.pc = "init" THEN evolutions + 1 ELSE evolutions
        /\ UNCHANGED <<Agents, Runs, Workflows, LLMProvider, calls, issued, heap>>

\* Lines 630-643: one round of the loop that builds the population.
EvolveInit(now) ==
    /\ evo.pc = "init"
    /\ LET i == Len(evo.population)
           candidates == IF i < Len(evo.parents) THEN {evo.parents[i + 1]}
                         ELSE Range(evo.parents)
       IN  \E parent \in candidates : \E made \in mutate(parent, evo.req.mutation_rate) :
              LET mutated == made.genome
                  genome == [mutated EXCEPT !.ID = generateAgentID(mutated.Name, now),
                                            !.Generation = 1,
                                            !.ParentIDs = evo.req.parent_ids]
                  population == Append(evo.population, Scored(genome))
              IN  /\ evo' = [evo EXCEPT !.population = population,
                                         !.pc = IF Len(population) < evo.req.population_size
                                                THEN "init"
                                                ELSE IF evo.req.generations > 0 THEN "score"
                                                ELSE "save"]
                  /\ heap' = made.heap
    /\ last' = Internal
    /\ UNCHANGED <<Agents, Runs, Workflows, LLMProvider, calls, issued, evolutions>>

\* Lines 648-672: the scores are drawn, the population is sorted, the elites kept.
EvolveScore(scores) ==
    /\ evo.pc = "score"
    /\ scores \in [1 .. Len(evo.population) -> SimulatedScores]
    /\    LET scored == [i \in 1 .. Len(evo.population) |->
                            [genome |-> [evo.population[i].genome EXCEPT !.Fitness = scores[i]],
                             score |-> scores[i]]]
              sorted == SortByFitness(scored)
              eliteCount == Min(2, Len(sorted) \div 2)
          IN  evo' = [evo EXCEPT !.population = sorted,
                                 !.eliteCount = eliteCount,
                                 !.newPopulation = SubSeq(sorted, 1, eliteCount),
                                 !.pc = "fill"]
    /\ last' = Internal
    /\ UNCHANGED <<Agents, Runs, Workflows, LLMProvider, calls, issued, evolutions, heap>>

\* Lines 675-693: one round of the loop that fills the next generation, or its end.
\* rand.Intn(0) panics; the deferred Unlock runs and nothing has been persisted.
\* The draws of a round are its inputs: the two elites of rand.Intn(eliteCount),
\* counted from 1, and whether rand.Float64() < 0.3 chose the crossover.
EvolveFill(now, i1, i2, cross) ==
    /\ evo.pc = "fill"
    /\ IF Len(evo.newPopulation) >= evo.req.population_size
       THEN /\ evo' = [evo EXCEPT !.population = evo.newPopulation,
                                  !.newPopulation = << >>,
                                  !.gen = @ + 1,
                                  !.pc = IF evo.gen + 1 < evo.req.generations
                                         THEN "score" ELSE "save"]
            /\ last' = Internal
            /\ UNCHANGED heap
       ELSE IF evo.eliteCount = 0
       THEN /\ evo' = NoEvolve
            /\ last' = [Ret("evolve", FALSE, evo.request,
                            [panic |-> <<"invalid argument to Intn">>])
                        EXCEPT !.hist = [before |-> evo.before]]
            /\ UNCHANGED heap
       ELSE /\ i1 \in 1 .. evo.eliteCount
            /\ i2 \in 1 .. evo.eliteCount
            /\ LET parent1 == evo.population[i1].genome
                   parent2 == evo.population[i2].genome
               IN  \E made \in IF cross THEN crossover(parent1, parent2)
                                ELSE mutate(parent1, evo.req.mutation_rate) :
                      LET child == [made.genome EXCEPT
                                       !.ID = generateAgentID(made.genome.Name, now),
                                       !.Generation = evo.gen + 1,
                                       !.ParentIDs = <<parent1.ID, parent2.ID>>]
                      IN  /\ evo' = [evo EXCEPT !.newPopulation = Append(@, Scored(child))]
                          /\ heap' = made.heap
            /\ last' = Internal
    /\ UNCHANGED <<Agents, Runs, Workflows, LLMProvider, calls, issued, evolutions>>

RECURSIVE PutAll(_, _)
PutAll(agents, genomes) ==
    IF genomes = << >> THEN agents
    ELSE PutAll(Put(agents, Head(genomes).ID, Head(genomes)), Tail(genomes))

\* Lines 696-710: the best agents are saved and the lock is released.
EvolveSave ==
    /\ evo.pc = "save"
    /\ LET bestAgents == [i \in 1 .. Min(3, Len(evo.population)) |-> evo.population[i].genome]
       IN  /\ Agents' = PutAll(Agents, bestAgents)
           /\ last' = [Ret("evolve", FALSE, evo.request,
                           [evolved |-> TRUE, generations |-> evo.req.generations,
                            best_agents |-> [i \in DOMAIN bestAgents |->
                                               Marshal(heap, bestAgents[i])],
                            best_fitness |-> evo.population[1].score])
                       EXCEPT !.hist = [before |-> evo.before]]
    /\ evo' = NoEvolve
    /\ UNCHANGED <<Runs, Workflows, LLMProvider, calls, issued, evolutions, heap>>

\* crossover on two registered genomes, as the fill loop of evolve calls it on two
\* members of its population (line 683).
CrossoverCall(id1, id2) ==
    /\ LockFree
    /\ {id1, id2} \subseteq DOMAIN Agents
    /\ \E made \in crossover(Agents[id1], Agents[id2]) :
          /\ heap' = made.heap
          /\ last' = Ret("crossover", FALSE, <<id1, id2>>, Marshal(made.heap, made.genome))
    /\ UNCHANGED <<Agents, Runs, Workflows, LLMProvider, calls, evo, issued, evolutions>>

\* listAgents counting a negative limit as no limit.
listAgentsUnlimited(limit) ==
    LET n == IF limit <= 0 THEN 50 ELSE limit
    IN  /\ LockFree
        /\ \E order \in Orderings(DOMAIN Agents) :
              last' = Ret("list", FALSE, limit,
                          [i \in 1 .. Min(n, Len(order)) |-> Marshal(heap, Agents[order[i]])])
        /\ UNCHANGED <<Agents, Runs, Workflows, LLMProvider, calls, evo, issued, evolutions, heap>>

\* listAgents: the genomes in the order the map iteration yields them, which Go
\* leaves open, cut at the limit (50 when the request has none).
listAgents(limit) ==
    LET n == IF limit = 0 THEN 50 ELSE limit
    IN  /\ LockFree
        /\ \E order \in Orderings(DOMAIN Agents) :
              last' = Ret("list", FALSE, limit,
                          [i \in 1 .. Min(Max(n, 0), Len(order)) |->
                              Marshal(heap, Agents[order[i]])])
        /\ UNCHANGED <<Agents, Runs, Workflows, LLMProvider, calls, evo, issued, evolutions, heap>>

(***************************************************************************)
(* The worker after NewOrchestratorWorkerState, and the requests its       *)
(* clients send.                                                           *)
(***************************************************************************)
Init ==
    /\ Agents = EmptyMap
    /\ Runs = EmptyMap
    /\ Workflows = EmptyMap
    /\ LLMProvider \in {"nil", "set"}
    /\ calls = [c \in Callers |-> Idle]
    /\ evo = NoEvolve
    /\ last = NoRet
    /\ issued = << >>
    /\ evolutions = 0
    /\ heap = << >>

RegisterRequest(name, model, prompt, tools, temperature) ==
    [name |-> name, model |-> model, provider |-> "ollama", system_prompt |-> prompt,
     tools |-> tools, temperature |-> temperature, max_tokens |-> 0]

EvolveRequest(parentIDs, populationSize, generations, mutationRate) ==
    [task |-> <<"t">>, parent_ids |-> parentIDs, population_size |-> populationSize,
     generations |-> generations, mutation_rate |-> mutationRate]

Step(stepID, agentID, parallel, inputs) ==
    [StepID |-> stepID, AgentID |-> agentID, Parallel |-> parallel, Inputs |-> inputs]

\* The IDs a request may name: those registerAgent can have given to the name "a",
\* one no registration gives, and the empty string.
AgentA(n) == <<"agent", <<"a">>, n>>

UnknownAgent == <<"agent", <<"zz">>, 0>>

SomeAgentIDs == {AgentA(0), UnknownAgent, << >>}

SomeRunIDs == {<<"run", 0>>, <<"run", 7>>}

SomeInputs == {EmptyStr, <<"x">>}

PlainAgent == RegisterRequest(<<"a">>, "m", EmptyStr, << >>, 70)

(***************************************************************************)
(* SpecRun: one agent is registered and may be deleted; the callers run it *)
(* and an unknown agent concurrently.                                      *)
(***************************************************************************)
NextRun ==
    \/ /\ issued = << >>
       /\ registerAgent(PlainAgent, 0)
    \/ deleteAgent(AgentA(0))
    \/ \E c \in Callers, id \in SomeAgentIDs, input \in SomeInputs : RunAgentStart(c, id, input)
    \/ \E c \in Callers, now \in ClockReadings(RunIDModulus) : RunAgentCreate(c, now)
    \/ \E c \in Callers, expired \in BOOLEAN : RunAgentFinish(c, expired)

SpecRun == Init /\ [][NextRun]_vars

(***************************************************************************)
(* SpecParallel: one client sends batches over an agent that is or will be *)
(* registered and an unknown agent, of every length up to w.MaxParallel    *)
(* and one beyond it.                                                      *)
(***************************************************************************)
RECURSIVE Lists(_, _)
Lists(S, n) ==
    IF n = 0 THEN {<< >>}
    ELSE {<< >>} \cup {<<x>> \o rest : x \in S, rest \in Lists(S, n - 1)}

ParallelRequests ==
    {[agent_ids |-> ids, input |-> <<"x">>] : ids \in Lists({AgentA(0), UnknownAgent}, MaxParallel)}
      \cup {[agent_ids |-> [i \in 1 .. MaxParallel + 1 |-> AgentA(0)], input |-> <<"x">>],
            [agent_ids |-> <<AgentA(0)>>, input |-> EmptyStr]}

NextParallel ==
    \/ /\ issued = << >>
       /\ registerAgent(PlainAgent, 0)
    \/ \E req \in ParallelRequests : RunParallelStart(1, req.agent_ids, req.input)
    \/ \E i \in 1 .. MaxParallel : GoLookup(1, i)
    \/ \E i \in 1 .. MaxParallel, now \in ClockReadings(RunIDModulus) : GoCreate(1, i, now)
    \/ \E i \in 1 .. MaxParallel, expired \in BOOLEAN : GoFinish(1, i, expired)
    \/ RunParallelJoin(1)

SpecParallel == Init /\ [][NextParallel]_vars

(***************************************************************************)
(* SpecWorkflow: one workflow is created, over an agent that is or will be *)
(* registered and an unknown agent, its steps flagged parallel or not, and *)
(* one client runs it.  A workflow of the same name may be created once    *)
(* more, 10000 ns after the first.                                         *)
(***************************************************************************)
StepsOver(agentIDs) ==
    [i \in 1 .. Len(agentIDs) |-> Step(<<"s", i>>, agentIDs[i], FALSE, EmptyMap)]

WorkflowW == <<"wf", <<"w">>, 0>>

NextWorkflow ==
    \/ /\ issued = << >>
       /\ registerAgent(PlainAgent, 0)
    \/ /\ Workflows = EmptyMap
       /\ \E agentIDs \in Lists({AgentA(0), UnknownAgent}, MaxSteps), parallel \in BOOLEAN :
             createWorkflow(<<"w">>, [i \in 1 .. Len(agentIDs) |->
                                        [StepsOver(agentIDs)[i] EXCEPT !.Parallel = parallel]], 0)
    \/ /\ WorkflowW \in DOMAIN Workflows
       /\ Workflows[WorkflowW].Steps # StepsOver(<<UnknownAgent>>)
       /\ createWorkflow(<<"w">>, StepsOver(<<UnknownAgent>>), WorkflowIDModulus)
    \/ \E id \in {WorkflowW, << >>}, input \in SomeInputs : RunWorkflowStart(1, id, input)
    \/ WfStepLookup(1)
    \/ \E now \in ClockReadings(RunIDModulus) : WfStepCreate(1, now)
    \/ \E expired \in BOOLEAN : WfStepFinish(1, expired)

SpecWorkflow == Init /\ [][NextWorkflow]_vars

(***************************************************************************)
(* SpecPlaceholders: a workflow of one step that declares two placeholders *)
(* standing for the initial input, run on inputs with and without them.    *)
(***************************************************************************)
NextPlaceholders ==
    \/ /\ issued = << >>
       /\ registerAgent(PlainAgent, 0)
    \/ /\ Workflows = EmptyMap
       /\ createWorkflow(<<"w">>, <<Step(<<"s", 1>>, AgentA(0), FALSE,
                                         [a |-> InitialKey, b |-> InitialKey])>>, 0)
    \/ \E input \in {<<"x">>, <<"${a}", "x">>, <<"${a}", "${b}">>} :
          RunWorkflowStart(1, WorkflowW, input)
    \/ WfStepLookup(1)
    \/ \E now \in ClockReadings(RunIDModulus) : WfStepCreate(1, now)
    \/ \E expired \in BOOLEAN : WfStepFinish(1, expired)

SpecPlaceholders == Init /\ [][NextPlaceholders]_vars

(***************************************************************************)
(* SpecRegistry: clients register agents under names that differ, coincide *)
(* or differ only by a space, read them, list them and delete them.  A     *)
(* list changes nothing, so that no client lists twice in a row.           *)
(***************************************************************************)
SomeNames == {EmptyStr, <<"a">>, <<"b", " ">>, <<"b", "_">>}

NextRegistry ==
    \/ /\ Len(issued) < MaxRegistrations
       /\ \E name \in SomeNames, model \in {"", "m"}, now \in ClockReadings(AgentIDModulus) :
             registerAgent(RegisterRequest(name, model, EmptyStr, << >>, 70), now)
    \/ \E id \in {generateAgentID(name, 0) : name \in SomeNames} : getAgent(id)
    \/ \E id \in {generateAgentID(name, 0) : name \in SomeNames} : deleteAgent(id)
    \/ /\ last.op # "list"
       /\ \E limit \in -1 .. MaxRegistrations : listAgents(limit)

SpecRegistry == Init /\ [][NextRegistry]_vars

(***************************************************************************)
(* Spec: one client and every tool of the worker that can fail or change   *)
(* the state, on requests that are valid and requests that are not.  One   *)
(* agent is registered, one workflow and one run are created, and evolve   *)
(* builds one population, whose members are all named in one nanosecond.   *)
(***************************************************************************)
Next ==
    \/ /\ issued = << >>
       /\ \E name \in {EmptyStr, <<"a">>} :
             registerAgent(RegisterRequest(name, "m", EmptyStr, << >>, 70), 0)
    \/ \E id \in {AgentA(0), UnknownAgent} : getAgent(id)
    \/ \E id \in {AgentA(0), UnknownAgent} : deleteAgent(id)
    \/ \E id \in SomeAgentIDs, input \in SomeInputs : RunAgentStart(1, id, input)
    \/ /\ Runs = EmptyMap
       /\ \E now \in ClockReadings(RunIDModulus) : RunAgentCreate(1, now)
    \/ \E expired \in BOOLEAN : RunAgentFinish(1, expired)
    \/ \E ids \in {<< >>, <<AgentA(0)>>, [i \in 1 .. MaxParallel + 1 |-> AgentA(0)]} :
          RunParallelStart(1, ids, <<"x">>)
    \/ GoLookup(1, 1)
    \/ /\ Runs = EmptyMap
       /\ \E now \in ClockReadings(RunIDModulus) : GoCreate(1, 1, now)
    \/ \E expired \in BOOLEAN : GoFinish(1, 1, expired)
    \/ RunParallelJoin(1)
    \/ /\ Workflows = EmptyMap
       /\ \E name \in {EmptyStr, <<"w">>}, agentIDs \in {<< >>, <<AgentA(0)>>} :
             createWorkflow(name, StepsOver(agentIDs), 0)
    \/ \E id \in {WorkflowW, <<"wf", <<"zz">>, 0>>, << >>} : RunWorkflowStart(1, id, <<"x">>)
    \/ WfStepLookup(1)
    \/ /\ Runs = EmptyMap
       /\ \E now \in ClockReadings(RunIDModulus) : WfStepCreate(1, now)
    \/ \E expired \in BOOLEAN : WfStepFinish(1, expired)
    \/ \E id \in SomeRunIDs : evaluate(id, 150, TRUE)
    \/ \E id \in SomeRunIDs : getResult(id)
    \/ /\ evolutions = 0
       /\ \E id \in {AgentA(0), UnknownAgent} : EvolveStart(EvolveRequest(<<id>>, 2, 1, 100))
    \/ EvolveInit(1)
    \/ \E scores \in [1 .. 2 -> SimulatedScores] : EvolveScore(scores)
    \/ \E cross \in BOOLEAN : EvolveFill(1, 1, 1, cross)
    \/ EvolveSave

Spec == Init /\ [][Next]_vars

(***************************************************************************)
(* SpecPopulation: evolve from one registered parent with a population of  *)
(* six over two generations.  The clock advances between the names evolve  *)
(* generates, so that they differ, except for the first child of the last  *)
(* generation, whose reading may also lie a multiple of 10000 ns after the *)
(* reading that named the parent or the best elite.  The mutation rate of  *)
(* the request is negative: mutate copies its argument.                    *)
(***************************************************************************)
PopulationRequest == EvolveRequest(<<AgentA(0)>>, 6, 2, -100)

PopulationScores ==
    {[i \in 1 .. 6 |-> 99], [i \in 1 .. 6 |-> IF i <= 2 THEN 30 ELSE 99]}

FillReadings ==
    LET fresh == 10 * (evo.gen + 1) + Len(evo.newPopulation)
    IN  IF evo.gen = 1 /\ Len(evo.newPopulation) = 2
        THEN {fresh, AgentIDModulus, AgentIDModulus + evo.newPopulation[1].genome.ID[3]}
        ELSE {fresh}

NextPopulation ==
    \/ /\ issued = << >>
       /\ registerAgent(PlainAgent, 0)
    \/ getAgent(AgentA(0))
    \/ /\ evolutions = 0
       /\ EvolveStart(PopulationRequest)
    \/ /\ evo.pc = "init"
       /\ EvolveInit(Len(evo.population) + 1)
    \/ \E scores \in PopulationScores : EvolveScore(scores)
    \/ /\ evo.pc = "fill"
       /\ \E now \in FillReadings, i \in 1 .. 2 : EvolveFill(now, i, i, FALSE)
    \/ EvolveSave

SpecPopulation == Init /\ [][NextPopulation]_vars

(***************************************************************************)
(* SpecEvolve: evolve over a population of one or two for one generation,  *)
(* from a parent registered with two tools or with none, at a temperature  *)
(* inside or at an end of the range, and an ID that is not registered,     *)
(* every mutation taking place.  The readings that name the new genomes    *)
(* differ from the reading that named the parent.                          *)
(***************************************************************************)
EvolveParentLists == {<<AgentA(0)>>, <<UnknownAgent>>, <<UnknownAgent, AgentA(0)>>}

ToolAgent == RegisterRequest(<<"a">>, "m", EmptyStr, <<"t1", "t2">>, 70)

NextEvolve ==
    \/ /\ issued = << >>
       /\ \E req \in {PlainAgent, ToolAgent}
                      \cup {RegisterRequest(<<"a">>, "m", EmptyStr, << >>, t) : t \in {0, 200}} :
             registerAgent(req, 0)
    \/ getAgent(AgentA(0))
    \/ /\ evolutions = 0
       /\ \E parentIDs \in EvolveParentLists, populationSize \in {1, 2} :
             EvolveStart(EvolveRequest(parentIDs, populationSize, 1, 100))
    \/ \E now \in {1, 2} : EvolveInit(now)
    \/ /\ evo.pc = "score"
       /\ \E scores \in [1 .. Len(evo.population) -> SimulatedScores] : EvolveScore(scores)
    \/ \E cross \in BOOLEAN : EvolveFill(3, 1, 1, cross)
    \/ EvolveSave

SpecEvolve == Init /\ [][NextEvolve]_vars

(***************************************************************************)
(* SpecEvaluate: one client registers up to two agents of the same name,   *)
(* deletes the first, runs them and evaluates the runs, with and without   *)
(* an explicit fitness and with either correctness flag.                   *)
(***************************************************************************)
EvaluateRequests ==
    {[fitness |-> 0, correctness |-> FALSE], [fitness |-> 0, correctness |-> TRUE],
     [fitness |-> 80, correctness |-> TRUE]}

NextEvaluate ==
    \/ /\ Len(issued) < 2
       /\ registerAgent(PlainAgent, Len(issued))
    \/ deleteAgent(AgentA(0))
    \/ \E id \in {AgentA(0), AgentA(1)} : RunAgentStart(1, id, <<"x">>)
    \/ \E now \in {0, 1} : RunAgentCreate(1, now)
    \/ RunAgentFinish(1, FALSE)
    \/ \E id \in {generateRunID(0), generateRunID(1)}, req \in EvaluateRequests :
          evaluate(id, req.fitness, req.correctness)

SpecEvaluate == Init /\ [][NextEvaluate]_vars

\* The steps of an evolve call inside its critical section, its children named at
\* distinct clock readings.
EvolveStep ==
    \/ EvolveInit(2)
    \/ EvolveScore([i \in 1 .. 2 |-> 99])
    \/ EvolveFill(3, 1, 1, FALSE)
    \/ EvolveSave

(***************************************************************************)
(* Execute.  A tool name is the tuple of the parts the underscores of the  *)
(* gateway join: the worker's tools are named "orchestrator_<tool>", and   *)
(* the gateway registers each as "<worker>_<tool name>".                   *)
(***************************************************************************)
WorkerName == "orchestrator"

\* The names of w.Tools (lines 90-108).
Tools ==
    {<<"orchestrator", t>> :
        t \in {"register_agent", "list_agents", "get_agent", "delete_agent", "run_agent",
               "run_parallel", "run_workflow", "evaluate", "evolve", "get_result",
               "create_workflow", "list_workflows"}}

\* fmt.Sprintf("%s_%s", name, tool.Name) in initMCPServer.
GatewayName(worker, tool) == <<worker>> \o tool

\* The switch of Execute: the handler a name selects, "nil" for the default case.
Dispatch(name) ==
    CASE name \in {<<"orchestrator", "orchestrator", "register_agent">>, <<"orchestrator", "register_agent">>} -> "registerAgent"
      [] name \in {<<"orchestrator", "orchestrator", "list_agents">>, <<"orchestrator", "list_agents">>} -> "listAgents"
      [] name \in {<<"orchestrator", "orchestrator", "get_agent">>, <<"orchestrator", "get_agent">>} -> "getAgent"
      [] name \in {<<"orchestrator", "orchestrator", "delete_agent">>, <<"orchestrator", "delete_agent">>} -> "deleteAgent"
      [] name \in {<<"orchestrator", "orchestrator", "run_agent">>, <<"orchestrator", "run_agent">>} -> "runAgent"
      [] name \in {<<"orchestrator", "orchestrator", "run_parallel">>, <<"orchestrator", "run_parallel">>} -> "runParallel"
      [] name \in {<<"orchestrator", "orchestrator", "run_workflow">>, <<"orchestrator", "run_workflow">>} -> "runWorkflow"
      [] name \in {<<"orchestrator", "orchestrator", "evaluate">>, <<"orchestrator", "evaluate">>} -> "evaluate"
      [] name \in {<<"orchestrator", "orchestrator", "evolve">>, <<"orchestrator", "evolve">>} -> "evolve"
      [] name \in {<<"orchestrator", "orchestrator", "get_result">>, <<"orchestrator", "get_result">>} -> "getResult"
      [] name \in {<<"orchestrator", "orchestrator", "create_workflow">>, <<"orchestrator", "create_workflow">>} -> "createWorkflow"
      [] name \in {<<"orchestrator", "orchestrator", "list_workflows">>, <<"orchestrator", "list_workflows">>} -> "listWorkflows"
      [] OTHER -> "nil"

\* listWorkflows: the workflows in the order the map iteration yields them.
listWorkflows ==
    /\ LockFree
    /\ \E order \in Orderings(DOMAIN Workflows) :
          last' = Ret("listWorkflows", FALSE, << >>, [i \in 1 .. Len(order) |-> Workflows[order[i]]])
    /\ UNCHANGED <<Agents, Runs, Workflows, LLMProvider, calls, evo, issued, evolutions, heap>>

\* A payload is a JSON object; each handler decodes the keys of its request struct
\* and ignores the others.
ExecuteCall(name, p, now) ==
    \/ /\ Dispatch(name) = "registerAgent"
       /\ registerAgent(RegisterRequest(p.name, p.model, p.system_prompt, p.tools,
                                        p.temperature), now)
    \/ /\ Dispatch(name) = "listAgents"
       /\ listAgents(p.limit)
    \/ /\ Dispatch(name) = "getAgent"
       /\ getAgent(p.agent_id)
    \/ /\ Dispatch(name) = "deleteAgent"
       /\ deleteAgent(p.agent_id)
    \/ /\ Dispatch(name) = "runAgent"
       /\ RunAgentStart(1, p.agent_id, p.input)
    \/ /\ Dispatch(name) = "runParallel"
       /\ RunParallelStart(1, p.agent_ids, p.input)
    \/ /\ Dispatch(name) = "runWorkflow"
       /\ RunWorkflowStart(1, p.workflow_id, p.initial_input)
    \/ /\ Dispatch(name) = "evaluate"
       /\ evaluate(p.run_id, p.fitness, p.correctness)
    \/ /\ Dispatch(name) = "evolve"
       /\ EvolveStart(EvolveRequest(p.parent_ids, p.population_size, p.generations,
                                    p.mutation_rate))
    \/ /\ Dispatch(name) = "getResult"
       /\ getResult(p.run_id)
    \/ /\ Dispatch(name) = "createWorkflow"
       /\ createWorkflow(p.name, p.steps, now)
    \/ /\ Dispatch(name) = "listWorkflows"
       /\ listWorkflows
    \/ /\ Dispatch(name) = "nil"
       /\ last' = Ret("nil", FALSE, name, << >>)
       /\ UNCHANGED <<Agents, Runs, Workflows, LLMProvider, calls, evo, issued, evolutions, heap>>

(***************************************************************************)
(* SpecExecute: one client calls Execute with the names the worker         *)
(* advertises, the names the gateway registers, and names that are         *)
(* neither, on a payload that has every key and on the empty object.       *)
(***************************************************************************)
FullPayload ==
    [name |-> <<"a">>, model |-> "m", system_prompt |-> EmptyStr, tools |-> << >>,
     temperature |-> 70, limit |-> 0, agent_id |-> AgentA(0), input |-> <<"x">>,
     agent_ids |-> <<AgentA(0)>>, workflow_id |-> generateWorkflowID(<<"a">>, 0),
     initial_input |-> <<"x">>, run_id |-> generateRunID(0), fitness |-> 80,
     correctness |-> TRUE, parent_ids |-> <<AgentA(0)>>, population_size |-> 2,
     generations |-> 1, mutation_rate |-> -100, steps |-> StepsOver(<<AgentA(0)>>)]

EmptyPayload ==
    [name |-> EmptyStr, model |-> "", system_prompt |-> EmptyStr, tools |-> << >>,
     temperature |-> 0, limit |-> 0, agent_id |-> << >>, input |-> EmptyStr,
     agent_ids |-> << >>, workflow_id |-> << >>, initial_input |-> EmptyStr,
     run_id |-> << >>, fitness |-> 0, correctness |-> FALSE, parent_ids |-> << >>,
     population_size |-> 0, generations |-> 0, mutation_rate |-> 0, steps |-> << >>]

CalledNames ==
    Tools \cup {GatewayName(WorkerName, tool) : tool \in Tools}
          \cup {<<"register_agent">>, <<"orchestrator", "status">>,
                GatewayName("sqlite", <<"orchestrator", "evolve">>)}

\* What keeps the state space finite: one registration, one workflow, one evolve.
WithinBounds(name) ==
    /\ Dispatch(name) = "registerAgent" => issued = << >>
    /\ Dispatch(name) = "createWorkflow" => Workflows = EmptyMap
    /\ Dispatch(name) = "evolve" => evolutions = 0

NextExecute ==
    \/ \E name \in CalledNames, p \in {FullPayload, EmptyPayload} :
          /\ WithinBounds(name)
          /\ ExecuteCall(name, p, 0)
    \/ /\ Runs = EmptyMap
       /\ RunAgentCreate(1, 0)
    \/ RunAgentFinish(1, FALSE)
    \/ GoLookup(1, 1)
    \/ /\ Runs = EmptyMap
       /\ GoCreate(1, 1, 0)
    \/ GoFinish(1, 1, FALSE)
    \/ RunParallelJoin(1)
    \/ WfStepLookup(1)
    \/ /\ Runs = EmptyMap
       /\ WfStepCreate(1, 0)
    \/ WfStepFinish(1, FALSE)
    \/ EvolveStep

SpecExecute == Init /\ [][NextExecute]_vars

(***************************************************************************)
(* SpecLock: the callers run one agent concurrently while a client         *)
(* registers, reads, lists, deletes, evaluates, fetches results and        *)
(* evolves.                                                                *)
(***************************************************************************)
NextLock ==
    \/ /\ issued = << >>
       /\ registerAgent(PlainAgent, 0)
    \/ getAgent(AgentA(0))
    \/ listAgents(0)
    \/ deleteAgent(AgentA(0))
    \/ \E c \in Callers : RunAgentStart(c, AgentA(0), <<"x">>)
    \/ \E c \in Callers : RunAgentCreate(c, c)
    \/ \E c \in Callers : RunAgentFinish(c, FALSE)
    \/ evaluate(generateRunID(1), 80, TRUE)
    \/ getResult(generateRunID(1))
    \/ /\ evolutions = 0
       /\ EvolveStart(EvolveRequest(<<AgentA(0)>>, 2, 1, -100))
    \/ EvolveStep

SpecLock == Init /\ [][NextLock]_vars

(***************************************************************************)
(* SpecLive: the clients that change the state, under a fair scheduler.    *)
(* The LLM call of a run returns and its goroutine goes on to take the     *)
(* lock, which an evolve call, itself a goroutine that is scheduled,       *)
(* releases after its bounded loops (deferred Unlock, line 607).           *)
(***************************************************************************)
NextLive ==
    \/ /\ issued = << >>
       /\ registerAgent(PlainAgent, 0)
    \/ deleteAgent(AgentA(0))
    \/ \E c \in Callers : RunAgentStart(c, AgentA(0), <<"x">>)
    \/ \E c \in Callers : RunAgentCreate(c, c)
    \/ \E c \in Callers : RunAgentFinish(c, FALSE)
    \/ evaluate(generateRunID(1), 80, TRUE)
    \/ /\ evolutions = 0
       /\ EvolveStart(EvolveRequest(<<AgentA(0)>>, 2, 1, -100))
    \/ EvolveStep

SpecLive ==
    /\ Init
    /\ [][NextLive]_vars
    /\ \A c \in Callers : WF_vars(RunAgentFinish(c, FALSE))
    /\ WF_vars(EvolveStep)

(***************************************************************************)
(* SpecCrossover: two agents are registered with temperatures drawn from   *)
(* a few decimals, and crossover is applied to them in either order.       *)
(***************************************************************************)
RequestTemperatures == {0, 40, 60, 70, 80, 200}

CrossoverRequests ==
    {RegisterRequest(<<"a">>, "m", EmptyStr, << >>, t) : t \in RequestTemperatures}
      \cup {RegisterRequest(<<"a">>, "m", <<"p", "q", "r">>, <<"t1", "t2">>, 40),
            RegisterRequest(<<"a">>, "m", <<"u", "v">>, <<"t2", "t3">>, 80),
            RegisterRequest(<<"a">>, "m", <<"p">>, <<"t1", "t1">>, 70)}

NextCrossover ==
    \/ /\ Len(issued) < 2
       /\ \E req \in CrossoverRequests : registerAgent(req, Len(issued))
    \/ /\ last.op # "crossover"
       /\ \E id1, id2 \in {AgentA(0), AgentA(1)} : CrossoverCall(id1, id2)

SpecCrossover == Init /\ [][NextCrossover]_vars

(***************************************************************************)
(* Properties.                                                             *)
(***************************************************************************)

\* C1: the IDs registerAgent has returned are pairwise distinct, so that no call
\* has overwritten the entry of another call.
C1_RegisteredIDsDistinct ==
    \A i, j \in 1 .. Len(issued) : i # j => issued[i] # issued[j]

Terminal(status) == status \in {"completed", "failed"}

\* C2: the status stored under a run ID that is completed or failed never changes
\* again; it neither returns to running nor switches to the other terminal status.
C2_TerminalStatusIsFinal ==
    [][\A id \in DOMAIN Runs :
          Terminal(Runs[id].Status) => Runs'[id].Status = Runs[id].Status]_vars

\* C3: when the agent execution of step k is the first to fail (its agent is not
\* registered, or its LLM call returns an error), runWorkflow returns status failed,
\* names step k, carries an output for every step before k and has created no run
\* for a step after k.
C3_FailingStepIsNamed ==
    (last.op = "runWorkflow" /\ ~last.hard /\ last.hist.failed > 0) =>
        /\ last.val.status = "failed"
        /\ last.val.step = <<"s", last.hist.failed>>
        /\ \A j \in 1 .. (last.hist.failed - 1) : <<"s", j>> \in DOMAIN last.val.results
        /\ last.hist.created \subseteq 1 .. last.hist.failed

ValidBatch(req) ==
    /\ Len(req.agent_ids) \in 1 .. MaxParallel
    /\ req.input # EmptyStr

\* C4: runParallel with 1..MaxParallel agent IDs and a non-empty input returns
\* one result per agent ID, result i carrying agent ID i of the request, and the
\* result of an agent that is not registered has status failed.
C4_ResultsInRequestOrder ==
    last.op = "runParallel" =>
        /\ ValidBatch(last.req) => ~last.hard
        /\ ~last.hard =>
              /\ Len(last.val.results) = Len(last.req.agent_ids)
              /\ last.val.count = Len(last.req.agent_ids)
              /\ \A i \in 1 .. Len(last.req.agent_ids) :
                    /\ last.val.results[i].agent_id = last.req.agent_ids[i]
                    /\ last.req.agent_ids[i] = UnknownAgent =>
                          last.val.results[i].status = "failed"

C4_Witness ==
    /\ last.op = "runParallel"
    /\ ~last.hard
    /\ last.req.agent_ids = <<AgentA(0), UnknownAgent, AgentA(0)>>
    /\ last.val.results[1].status = "completed"
    /\ last.val.results[2].status = "failed"
    /\ last.val.results[3].status = "completed"
    /\ last.val.results[1].run_id # last.val.results[3].run_id

\* C5: a runParallel request with more agent IDs than MaxParallel returns a hard
\* error in a step that changes neither the run ledger nor the calls in progress
\* (no goroutine is started, no LLM call is made); a request with exactly
\* MaxParallel agent IDs and a non-empty input does not return a hard error.
C5_OverflowRefusedBeforeAnyRun ==
    [][last'.op = "runParallel" =>
          /\ Len(last'.req.agent_ids) > MaxParallel =>
                (last'.hard /\ Runs' = Runs /\ calls' = calls)
          /\ (Len(last'.req.agent_ids) = MaxParallel /\ last'.req.input # EmptyStr) =>
                ~last'.hard]_vars

C5_Witness ==
    /\ last.op = "runParallel"
    /\ last.hard
    /\ Len(last.req.agent_ids) = MaxParallel + 1
    /\ \E id \in DOMAIN Runs : Runs[id].Status = "completed"

\* C6: a batch that was accepted never returns a hard error, and every slot whose
\* agent was registered when the slot looked it up and whose LLM call returned a
\* text is reported completed with that text, whatever happened in the other slots.
C6_FailuresStayInTheirSlot ==
    last.op = "runParallel" =>
        /\ last.hard => ~ValidBatch(last.req)
        /\ ~last.hard =>
              \A i \in 1 .. Len(last.req.agent_ids) :
                 (i \in DOMAIN last.hist.exec /\ last.hist.exec[i].ok) =>
                    /\ last.hist.agents[i] # NoAgent
                    /\ last.val.results[i].status = "completed"
                    /\ last.val.results[i].output = last.hist.exec[i].text

C6_Witness ==
    /\ last.op = "runParallel"
    /\ ~last.hard
    /\ last.req.agent_ids = <<AgentA(0), UnknownAgent, AgentA(0)>>
    /\ 1 \in DOMAIN last.hist.exec /\ ~last.hist.exec[1].ok
    /\ last.val.results[1].status = "failed"
    /\ last.val.results[2].status = "failed"
    /\ 3 \in DOMAIN last.hist.exec /\ last.hist.exec[3].ok
    /\ last.val.results[3].status = "completed"
    /\ last.val.results[3].output = <<"y">>

\* C7: with no LLM provider, a runAgent call that does not return a hard error
\* returns status completed and the placeholder built from the agent's name and the
\* input, the run it wrote is completed with that output, and no run in the ledger
\* is failed; the expiry of the deadline changes none of this.
C7_DryRunAlwaysCompletes ==
    LLMProvider = "nil" =>
        /\ \A id \in DOMAIN Runs : Runs[id].Status # "failed"
        /\ (last.op = "runAgent" /\ ~last.hard) =>
              /\ last.val.status = "completed"
              /\ last.val.output = Simulated(<<"a">>, last.req.input)
              /\ Runs[last.val.run_id].Status = "completed"
              /\ Runs[last.val.run_id].Output = last.val.output

C7_Witness ==
    /\ LLMProvider = "nil"
    /\ last.op = "runAgent"
    /\ ~last.hard
    /\ last.hist.expired
    /\ last.val.status = "completed"
    /\ last.val.output = Simulated(<<"a">>, <<"x">>)

\* C8: when the LLM call of a runAgent returns an error (the error of the context
\* once the deadline has expired), runAgent returns a result, not a hard error,
\* with status failed and that error text, and the record under its run ID is failed
\* with the same text; a hard error is returned only for an empty agent ID or input
\* or an agent that is not registered.
C8_LLMFailureIsAResult ==
    last.op = "runAgent" =>
        /\ (~last.hard /\ ~last.hist.exec.ok) =>
              /\ last.val.status = "failed"
              /\ last.val.error = last.hist.exec.text
              /\ Runs[last.val.run_id].Status = "failed"
              /\ Runs[last.val.run_id].Error = last.hist.exec.text
        /\ last.hard =>
              \/ last.req.agent_id = << >>
              \/ last.req.input = EmptyStr
              \/ last.req.agent_id \notin DOMAIN Agents

C8_Witness ==
    /\ last.op = "runAgent"
    /\ ~last.hard
    /\ last.hist.expired
    /\ last.val.status = "failed"
    /\ last.val.error = DeadlineExceeded
    /\ Runs[last.val.run_id].Error = DeadlineExceeded

\* C9: a step in which a tool returns a hard error leaves the genomes, the runs and
\* the workflows as they were.
C9_HardErrorChangesNothing ==
    [][last'.hard => (Agents' = Agents /\ Runs' = Runs /\ Workflows' = Workflows)]_vars

C9_Witness ==
    /\ last.op = "evaluate"
    /\ last.hard
    /\ Agents # EmptyMap
    /\ Runs # EmptyMap
    /\ Workflows # EmptyMap

\* C10: every genome in the registry has a fitness in [0,1] and a generation >= 0.
C10_FitnessAndGenerationInRange ==
    \A id \in DOMAIN Agents :
        /\ Agents[id].Fitness >= 0
        /\ Agents[id].Fitness <= 100
        /\ Agents[id].Generation >= 0

\* C11: a register call is a hard error exactly when the name or the model is
\* empty; a successful one adds exactly one genome to the registry, under an ID that
\* was not in it, with fitness 0.5, generation 0, no parent IDs and the request's
\* name, model, provider, prompt, tools, temperature and max tokens, and leaves every
\* other genome, every run and every workflow as it was.
C11_RegisterAddsOneGenome ==
    [][last'.op = "register" =>
          /\ last'.hard <=> (last'.req.name = EmptyStr \/ last'.req.model = "")
          /\ ~last'.hard =>
                LET id == last'.val.agent_id
                IN  /\ id \notin DOMAIN Agents
                    /\ DOMAIN Agents' = DOMAIN Agents \cup {id}
                    /\ \A other \in DOMAIN Agents : Agents'[other] = Agents[other]
                    /\ Marshal(heap', Agents'[id]) = NewGenome(id, last'.req)
                    /\ Runs' = Runs
                    /\ Workflows' = Workflows]_vars

\* C12: when evolve with one registered parent, population size 6 and 2
\* generations returns, it returns 3 best agents with pairwise distinct IDs, the
\* registry has 3 entries more than when it was called, and each best agent has a
\* generation >= 1 and 1 or 2 parent IDs.
C12_EvolveAddsThreeGenomes ==
    (/\ last.op = "evolve"
     /\ ~last.hard
     /\ last.req = PopulationRequest
     /\ "best_agents" \in DOMAIN last.val) =>
        LET best == last.val.best_agents
        IN  /\ Len(best) = 3
            /\ \A i, j \in 1 .. Len(best) : i # j => best[i].ID # best[j].ID
            /\ Cardinality(DOMAIN Agents) = Cardinality(DOMAIN last.hist.before) + 3
            /\ \A i \in 1 .. Len(best) :
                  /\ best[i].Generation >= 1
                  /\ Len(best[i].ParentIDs) \in {1, 2}

\* C13: when evolve returns, every genome that was registered when it was called
\* is still registered and reads as it did then: same name, model, prompt, tools
\* in the same order, temperature, fitness, generation and parent IDs.
C13_EvolveLeavesRegisteredGenomes ==
    (last.op = "evolve" /\ ~last.hard) =>
        \A id \in DOMAIN last.hist.before :
            /\ id \in DOMAIN Agents
            /\ Marshal(heap, Agents[id]) = last.hist.before[id]

\* C14: evaluate is a hard error exactly when the run does not exist; otherwise the
\* fitness is the value given when it is not 0, else 1.0 when correctness is true,
\* else 0.5; that value is written to the run, and to the run's genome if and only
\* if it is registered; no other field, run or genome changes and no genome is
\* added to the registry.
C14_EvaluateWritesFitnessOnly ==
    [][last'.op = "evaluate" =>
          LET id == last'.req.run_id
              f == IF last'.req.fitness # 0 THEN last'.req.fitness
                   ELSE IF last'.req.correctness THEN 100 ELSE 50
          IN  /\ last'.hard <=> id \notin DOMAIN Runs
              /\ ~last'.hard =>
                    /\ last'.val.fitness = f
                    /\ Runs' = [Runs EXCEPT ![id].Fitness = f]
                    /\ Agents' = IF Runs[id].GenomeID \in DOMAIN Agents
                                 THEN [Agents EXCEPT ![Runs[id].GenomeID].Fitness = f]
                                 ELSE Agents
                    /\ Workflows' = Workflows]_vars

C14_Witness ==
    /\ last.op = "evaluate"
    /\ ~last.hard
    /\ last.req.fitness = 0
    /\ ~last.req.correctness
    /\ Runs[last.req.run_id].Fitness = 50
    /\ Runs[last.req.run_id].GenomeID \notin DOMAIN Agents
    /\ \E other \in DOMAIN Runs : other # last.req.run_id /\ Runs[other].Fitness = 80
    /\ \E g \in DOMAIN Agents : Agents[g].Fitness = 80

\* C15: delete is a not-found error exactly when the ID is not registered; a
\* successful delete removes that genome and nothing else, leaving every other
\* genome, every run and every workflow as it was; getResult of a run in the ledger
\* succeeds and returns the run with its genome ID, registered or not.
C15_DeleteDoesNotCascade ==
    [][/\ last'.op = "delete" =>
             /\ last'.hard <=> last'.req \notin DOMAIN Agents
             /\ ~last'.hard =>
                   /\ DOMAIN Agents' = DOMAIN Agents \ {last'.req}
                   /\ \A other \in DOMAIN Agents' : Agents'[other] = Agents[other]
             /\ Runs' = Runs
             /\ Workflows' = Workflows
             /\ heap' = heap
       /\ (last'.op = "getResult" /\ last'.req \in DOMAIN Runs) =>
             /\ ~last'.hard
             /\ last'.val = Runs[last'.req]]_vars

C15_Witness ==
    /\ last.op = "getResult"
    /\ ~last.hard
    /\ last.val.GenomeID = AgentA(0)
    /\ AgentA(0) \notin DOMAIN Agents
    /\ Agents # EmptyMap
    /\ \E w \in DOMAIN Workflows : Workflows[w].Steps[1].AgentID = AgentA(0)

\* C16: no runAgent call holds the lock while it waits on the LLM abstraction.  In
\* every state where calls are waiting, register, get, list, delete, evaluate and
\* getResult can take their step, an idle caller can start a runAgent and a caller
\* that has read its genome can create its run; when the lock is taken, it is by an
\* evolve call, whose next step waits for no LLM call either.
C16_NoLockAcrossLLMCall ==
    InFlight =>
       /\ evo.pc = "idle" =>
             /\ Len(issued) < MaxRegistrations => ENABLED registerAgent(PlainAgent, Len(issued))
             /\ ENABLED getAgent(AgentA(0))
             /\ ENABLED listAgents(0)
             /\ ENABLED deleteAgent(AgentA(0))
             /\ ENABLED evaluate(generateRunID(1), 80, TRUE)
             /\ ENABLED getResult(generateRunID(1))
             /\ \A c \in Callers :
                   /\ calls[c].op = "idle" => ENABLED RunAgentStart(c, AgentA(0), <<"x">>)
                   /\ (calls[c].op = "runAgent" /\ calls[c].frames[1].pc = "create") =>
                         ENABLED RunAgentCreate(c, c)
       /\ evo.pc # "idle" => ENABLED EvolveStep

\* Both callers wait on the LLM abstraction at once, and a delete has just gone through.
C16_Witness ==
    /\ \A c \in Callers : calls[c].op = "runAgent" /\ calls[c].frames[1].pc = "call"
    /\ last.op = "delete"
    /\ ~last.hard

\* C17: every run record is created while its genome is registered: no delete of
\* the genome takes effect between the lookup of runAgent and the creation of its run.
C17_RunCreatedWhileRegistered ==
    [][\A c \in Callers :
          (/\ calls[c].op = "runAgent"
           /\ calls[c].frames[1].pc = "create"
           /\ calls'[c].frames[1].pc = "call") =>
             /\ calls'[c].frames[1].run_id \in DOMAIN Runs'
             /\ Runs'[calls'[c].frames[1].run_id].GenomeID \in DOMAIN Agents']_vars

\* C18: a run record is never removed or replaced: a run ID that is in the ledger
\* stays in it, and what getResult reads for it keeps the genome ID and the input
\* the run was created with.
C18_RunRecordsKept ==
    [][\A id \in DOMAIN Runs :
          /\ id \in DOMAIN Runs'
          /\ Runs'[id].GenomeID = Runs[id].GenomeID
          /\ Runs'[id].Input = Runs[id].Input]_vars

\* C19: crossover of a parent of temperature 0.4 with a parent of temperature 0.8
\* gives a child of temperature 0.6, the float64 the decimal 0.6 denotes.
C19_CrossoverTemperatureIsSixTenths ==
    (/\ last.op = "crossover"
     /\ Agents[last.req[1]].Temperature = ParseDecimal(40)
     /\ Agents[last.req[2]].Temperature = ParseDecimal(80)) =>
       last.val.Temperature = ParseDecimal(60)

\* C20: Execute never returns neither a result nor an error, whatever the name and
\* the payload; and each tool the worker advertises, under its own name and under
\* the name the gateway gives it, selects the handler of that tool.
OwnHandler(tool) ==
    [register_agent |-> "registerAgent", list_agents |-> "listAgents",
     get_agent |-> "getAgent", delete_agent |-> "deleteAgent", run_agent |-> "runAgent",
     run_parallel |-> "runParallel", run_workflow |-> "runWorkflow",
     evaluate |-> "evaluate", evolve |-> "evolve", get_result |-> "getResult",
     create_workflow |-> "createWorkflow", list_workflows |-> "listWorkflows"][tool[2]]

C20_ExecuteAlwaysAnswers ==
    /\ last.op # "nil"
    /\ \A tool \in Tools :
          /\ Dispatch(tool) = OwnHandler(tool)
          /\ Dispatch(GatewayName(WorkerName, tool)) = OwnHandler(tool)

\* C21: when runParallel returns, every run a goroutine of the batch created has a
\* terminal status, and the batch reports that run with that status.
C21_BatchReturnsAfterEveryRun ==
    [][\A c \in Callers :
          (calls[c].op = "runParallel" /\ calls'[c].op = "idle") =>
             \A i \in DOMAIN calls[c].frames :
                calls[c].frames[i].run_id # << >> =>
                   /\ calls[c].frames[i].run_id \in DOMAIN Runs'
                   /\ Terminal(Runs'[calls[c].frames[i].run_id].Status)
                   /\ last'.val.results[i].run_id = calls[c].frames[i].run_id
                   /\ Terminal(last'.val.results[i].status)]_vars

\* A batch of two has returned: one run completed, the other failed.
C21_Witness ==
    /\ last.op = "runParallel"
    /\ ~last.hard
    /\ last.val.count = 2
    /\ last.val.results[1].status = "completed"
    /\ last.val.results[2].status = "failed"
    /\ last.val.results[1].run_id # last.val.results[2].run_id
    /\ \A i \in 1 .. 2 :
          /\ last.val.results[i].run_id \in DOMAIN Runs
          /\ Terminal(Runs[last.val.results[i].run_id].Status)

C23_EveryOutputFeedsTheNextStep ==
    (last.op = "runWorkflow" /\ ~last.hard /\ last.hist.failed = 0) =>
        LET steps == Workflows[last.req.workflow_id].Steps
        IN  /\ last.val.status = "completed"
            /\ \A i \in DOMAIN steps : steps[i].StepID \in DOMAIN last.val.results
            /\ last.val.output = last.val.results[steps[Len(steps)].StepID]

\* C24: when evolve saves and returns, the genomes it persists and returns are the
\* min(3, population size) members of the final population with the highest
\* fitness, and the best fitness it returns is at least the fitness of every member
\* of the final population.
C24_BestOfFinalPopulationSaved ==
    [][(evo.pc = "save" /\ evo'.pc = "idle") =>
          LET population == evo.population
              n == Min(3, Len(population))
          IN  /\ Len(last'.val.best_agents) = n
              /\ \A i \in 1 .. n :
                    /\ population[i].genome.ID \in DOMAIN Agents'
                    /\ last'.val.best_agents[i].ID = population[i].genome.ID
                    /\ \A j \in n + 1 .. Len(population) :
                          population[i].genome.Fitness >= population[j].genome.Fitness
              /\ \A j \in 1 .. Len(population) :
                    last'.val.best_fitness >= population[j].genome.Fitness]_vars

\* The fields an elite is carried over with, as two encoded genomes agree on them.
SameAsCarried(a, b) ==
    /\ a.ID = b.ID
    /\ a.SystemPrompt = b.SystemPrompt
    /\ a.Tools = b.Tools
    /\ a.Temperature = b.Temperature
    /\ a.Generation = b.Generation
    /\ a.ParentIDs = b.ParentIDs

\* C25: in every round of evolve the population has populationSize members before
\* and after; the first min(2, populationSize/2) members of the next population are
\* the fittest members of the sorted population and keep their ID, prompt, tools,
\* temperature, generation and parent IDs while the round goes on; every member
\* added after them is a child of generation round+1 with two parent IDs, both of
\* elites of the round.
C25_ElitesKeptChildrenOfElites ==
    [][/\ (evo.pc = "score" /\ evo'.pc = "fill") =>
             /\ Len(evo.population) = evo.req.population_size
             /\ evo'.eliteCount = Min(2, evo.req.population_size \div 2)
             /\ \A i \in 1 .. evo'.eliteCount :
                   /\ evo'.newPopulation[i] = evo'.population[i]
                   /\ \A j \in evo'.eliteCount + 1 .. Len(evo'.population) :
                         evo'.population[i].genome.Fitness >= evo'.population[j].genome.Fitness
       /\ (evo.pc = "fill" /\ evo'.pc = "fill") =>
             LET child == evo'.newPopulation[Len(evo'.newPopulation)].genome
             IN  /\ Len(evo'.newPopulation) = Len(evo.newPopulation) + 1
                 /\ child.Generation = evo.gen + 1
                 /\ Len(child.ParentIDs) = 2
                 /\ \A p \in 1 .. 2 : \E e \in 1 .. evo.eliteCount :
                       child.ParentIDs[p] = evo.population[e].genome.ID
                 /\ \A i \in 1 .. evo.eliteCount :
                       SameAsCarried(Marshal(heap', evo'.newPopulation[i].genome),
                                     Marshal(heap, evo.newPopulation[i].genome))
       /\ (evo.pc = "fill" /\ evo'.pc \in {"score", "save"}) =>
             /\ evo'.population = evo.newPopulation
             /\ Len(evo'.population) = evo.req.population_size]_vars

\* C26: evolve succeeds exactly when one of the parent IDs it is given is
\* registered at the time of the call; with no registered parent it returns a hard
\* error and the registry is as it was.
C26_EvolveSucceedsIffParentRegistered ==
    last.op = "evolve" =>
        LET registered == IF last.hist = << >> THEN DOMAIN Agents
                          ELSE DOMAIN last.hist.before
            found == \E i \in DOMAIN last.req.parent_ids : last.req.parent_ids[i] \in registered
            succeeded == ~last.hard /\ "evolved" \in DOMAIN last.val
        IN  /\ succeeded <=> found
            /\ ~found => last.hard

\* C27: the child of crossover has an empty ID and fitness 0.5; its tool list has
\* no duplicates, holds every tool of parent 1 and only tools of the parents; its
\* temperature is the mean of the parents' temperatures (twice it is their sum,
\* and it lies between them); its prompt is parent 1's or the first half of
\* parent 1's followed by the second half of parent 2's; its other fields are
\* parent 1's; and every registered genome reads after the call as before it.
C27_CrossoverChild ==
    [][(last.op # "crossover" /\ last'.op = "crossover") =>
          LET parent1 == Marshal(heap, Agents[last'.req[1]])
              parent2 == Marshal(heap, Agents[last'.req[2]])
              child == last'.val
              half1 == SubSeq(parent1.SystemPrompt, 1, Len(parent1.SystemPrompt) \div 2)
              half2 == SubSeq(parent2.SystemPrompt, Len(parent2.SystemPrompt) \div 2 + 1,
                              Len(parent2.SystemPrompt))
          IN  /\ child.ID = << >>
              /\ child.Fitness = 50
              /\ \A i, j \in DOMAIN child.Tools : child.Tools[i] = child.Tools[j] => i = j
              /\ Range(parent1.Tools) \subseteq Range(child.Tools)
              /\ Range(child.Tools) \subseteq Range(parent1.Tools) \cup Range(parent2.Tools)
              /\ FloatAdd(child.Temperature, child.Temperature)
                    = FloatAdd(parent1.Temperature, parent2.Temperature)
              /\ ~FloatLess(child.Temperature,
                            FloatMin(parent1.Temperature, parent2.Temperature))
              /\ ~FloatLess(FloatMax(parent1.Temperature, parent2.Temperature),
                            child.Temperature)
              /\ child.SystemPrompt \in {parent1.SystemPrompt, half1 \o half2}
              /\ child.Name = parent1.Name
              /\ child.Model = parent1.Model
              /\ child.Provider = parent1.Provider
              /\ child.MaxTokens = parent1.MaxTokens
              /\ child.Generation = parent1.Generation
              /\ child.ParentIDs = parent1.ParentIDs
              /\ Agents' = Agents
              /\ \A id \in DOMAIN Agents :
                    Marshal(heap', Agents[id]) = Marshal(heap, Agents[id])]_vars

\* A child that mixes the prompts of two different parents and takes a tool that
\* only parent 2 has, while both have another.
C27_Witness ==
    /\ last.op = "crossover"
    /\ last.req[1] # last.req[2]
    /\ last.val.SystemPrompt = <<"p", "v">>
    /\ Range(last.val.Tools) = {"t1", "t2", "t3"}
    /\ Len(last.val.Tools) = 3
    /\ Agents[last.req[1]].Temperature # Agents[last.req[2]].Temperature

\* A temperature of the range [0, 2].
InRange(t) == ~FloatLess(t, FloatZero) /\ ~FloatLess(FloatTwo, t)

\* C28: when every parent of an evolve call has a temperature in [0, 2], so has
\* every genome of its populations while it runs, and every genome it has saved
\* and returned.
C28_TemperaturesStayInRange ==
    /\ (evo.pc # "idle" /\ \A i \in DOMAIN evo.parents : InRange(evo.parents[i].Temperature)) =>
          /\ \A i \in DOMAIN evo.population : InRange(evo.population[i].genome.Temperature)
          /\ \A i \in DOMAIN evo.newPopulation :
                InRange(evo.newPopulation[i].genome.Temperature)
    /\ (/\ last.op = "evolve"
        /\ ~last.hard
        /\ "evolved" \in DOMAIN last.val
        /\ \A i \in DOMAIN last.req.parent_ids :
              last.req.parent_ids[i] \in DOMAIN last.hist.before =>
                 InRange(last.hist.before[last.req.parent_ids[i]].Temperature)) =>
          \A i \in DOMAIN last.val.best_agents :
             /\ InRange(last.val.best_agents[i].Temperature)
             /\ InRange(Agents[last.val.best_agents[i].ID].Temperature)

\* evolve from a parent at temperature 2 has saved a genome the clamp kept at 2 and
\* one that the mutation cooled.
C28_Witness ==
    /\ last.op = "evolve"
    /\ ~last.hard
    /\ "evolved" \in DOMAIN last.val
    /\ last.hist.before[AgentA(0)].Temperature = FloatTwo
    /\ \E i \in DOMAIN last.val.best_agents : last.val.best_agents[i].Temperature = FloatTwo
    /\ \E i \in DOMAIN last.val.best_agents :
          FloatLess(last.val.best_agents[i].Temperature, FloatTwo)

\* C29 as stated: list with limit L returns min(L, number of registered genomes)
\* genomes, L being 50 when the request has no limit or limit 0.
C29_ListReturnsMinOfLimitAndSize ==
    last.op = "list" =>
        Len(last.val) = Min(IF last.req = 0 THEN 50 ELSE last.req, Cardinality(DOMAIN Agents))

\* C29, amended: list with limit L returns min(max(L, 0), number of registered
\* genomes) genomes, L being 50 when the request has no limit or limit 0; each is
\* a registered genome as the registry holds it, none is repeated, and the call
\* changes no state.
C29_ListReturnsRegisteredGenomes ==
    [][last'.op = "list" =>
          /\ Len(last'.val) = Min(Max(IF last'.req = 0 THEN 50 ELSE last'.req, 0),
                                  Cardinality(DOMAIN Agents))
          /\ \A i \in DOMAIN last'.val :
                /\ last'.val[i].ID \in DOMAIN Agents
                /\ last'.val[i] = Marshal(heap, Agents[last'.val[i].ID])
          /\ \A i, j \in DOMAIN last'.val : last'.val[i].ID = last'.val[j].ID => i = j
          /\ UNCHANGED <<Agents, Runs, Workflows, LLMProvider, calls, evo, issued,
                         evolutions, heap>>]_vars

\* A list cut at its limit: one genome of the two registered.
C29_Witness ==
    /\ last.op = "list"
    /\ last.req = 1
    /\ Len(last.val) = 1
    /\ Cardinality(DOMAIN Agents) = 2

\* C30: every run that has been created and is running eventually has a terminal
\* status, whatever registrations, deletions, evaluations and evolve calls are
\* interleaved with it, when the LLM call returns and the goroutines are scheduled
\* fairly.
C30_EveryRunTerminates ==
    \A c \in Callers :
       (generateRunID(c) \in DOMAIN Runs /\ Runs[generateRunID(c)].Status = "running")
          ~> (generateRunID(c) \in DOMAIN Runs /\ Terminal(Runs[generateRunID(c)].Status))

\* A run has ended after its genome was deleted and an evolve call was made, while
\* another run is still going on.
C30_Witness ==
    /\ generateRunID(1) \in DOMAIN Runs
    /\ Terminal(Runs[generateRunID(1)].Status)
    /\ Runs[generateRunID(1)].GenomeID \notin DOMAIN Agents
    /\ evolutions = 1
    /\ generateRunID(2) \in DOMAIN Runs
    /\ Runs[generateRunID(2)].Status = "running"

\* C31: every run record agrees with its status: a running run has no completion
\* time, no output and no error text; a completed run has a completion time and no
\* error text; a failed run has a completion time, an error text that is not empty
\* and no output.
C31_RunRecordMatchesStatus ==
    \A id \in DOMAIN Runs :
       LET run == Runs[id]
       IN  /\ run.Status = "running" =>
                ~run.Completed /\ run.Output = EmptyStr /\ run.Error = EmptyStr
           /\ run.Status = "completed" => run.Completed /\ run.Error = EmptyStr
           /\ run.Status = "failed" =>
                run.Completed /\ run.Error # EmptyStr /\ run.Output = EmptyStr

\* C32: createWorkflow fails when the name or the step list is empty and adds one
\* new workflow otherwise, and no step of any operation changes or removes the name
\* or the steps stored under a workflow ID.
C32_WorkflowsAreImmutable ==
    [][/\ \A id \in DOMAIN Workflows :
             /\ id \in DOMAIN Workflows'
             /\ Workflows'[id].Name = Workflows[id].Name
             /\ Workflows'[id].Steps = Workflows[id].Steps
       /\ last'.op = "createWorkflow" =>
             IF last'.req.name = EmptyStr \/ last'.req.steps = << >>
             THEN last'.hard /\ Workflows' = Workflows
             ELSE /\ ~last'.hard
                  /\ Cardinality(DOMAIN Workflows') = Cardinality(DOMAIN Workflows) + 1]_vars

\* C33: an evolve call that found a registered parent, with a population size and
\* a number of generations of at least 1, ends with a result and not with a panic,
\* also for a population of one.
C33_EvolveReturnsAResult ==
    (/\ last.op = "evolve"
     /\ ~last.hard
     /\ last.req.population_size >= 1
     /\ last.req.generations >= 1) =>
        /\ "panic" \notin DOMAIN last.val
        /\ last.val.evolved
        /\ Len(last.val.best_agents) = Min(3, last.req.population_size)

C35_EachSlotHasItsOwnRun ==
    (/\ last.op = "runParallel"
     /\ ~last.hard
     /\ \A i \in DOMAIN last.val.results : last.val.results[i].run_id # << >>) =>
        /\ \A i, j \in DOMAIN last.val.results :
              last.val.results[i].run_id = last.val.results[j].run_id => i = j
        /\ \A i \in DOMAIN last.val.results :
              /\ last.val.results[i].run_id \in DOMAIN Runs
              /\ Runs[last.val.results[i].run_id].GenomeID = last.req.agent_ids[i]
              /\ Runs[last.val.results[i].run_id].Status = last.val.results[i].status
              /\ Runs[last.val.results[i].run_id].Output = last.val.results[i].output

C37_ParentsOfSavedGenomesRegistered ==
    (last.op = "evolve" /\ ~last.hard /\ "best_agents" \in DOMAIN last.val) =>
        \A i \in DOMAIN last.val.best_agents :
           /\ last.val.best_agents[i].ID \in DOMAIN Agents
           /\ \A p \in DOMAIN Agents[last.val.best_agents[i].ID].ParentIDs :
                 Agents[last.val.best_agents[i].ID].ParentIDs[p] \in DOMAIN Agents

\* C38: the input of a workflow step is a function of the workflow, the initial
\* input and the outputs of the earlier steps: whenever an execution is about to
\* compute the input of a step, exactly one text can result, also when the step
\* declares several placeholders and a substituted value contains a placeholder.
C38_StepInputIsDetermined ==
    \A c \in Callers :
       (calls[c].op = "runWorkflow" /\ calls[c].frames = << >>) =>
          Cardinality(StepInputs(calls[c].wf.Steps[calls[c].idx], calls[c].stepResults,
                                 calls[c].lastOutput)) = 1

====
